---- MODULE Spec2Model ----
(***************************************************************************)
(* Build adapters of scripts/build/builders (android.py, imx.py,          *)
(* bouffalolab.py): each builder turns a board/app/profile choice into a  *)
(* sequence of commands handed to the runner, and reports its outputs.    *)
(*                                                                         *)
(* The bridge client of matter_yamltests (accessory_server_bridge.py)      *)
(* turns a request into one call of the accessory server.                 *)
(*                                                                         *)
(* Strings.  A path or a command word is a TLA+ string, built with \o.    *)
(* A value that shlex.quote inspects character by character (the value of *)
(* an environment variable, a generator argument) is a sequence of atoms: *)
(* an atom is one unsafe character (" ", "'") or a run of safe ones.       *)
(***************************************************************************)
EXTENDS Integers, Sequences, FiniteSets, TLC

VARIABLES
    self,       \* the builder: its kind and the fields __init__ stores
    dry_run,    \* self._runner.dry_run
    environ,    \* os.environ: a function from the names that are set
    fs,         \* the facts of the filesystem the builders ask about
    op,         \* the method that ran last ("none" before any)
    cmds,       \* the commands that call passed to self._Execute, in order
    status,     \* how that call ended: "ok" or the error it raised
    failed_at,  \* which of its commands failed (0: none did)
    validated,  \* how often that call ran validate_build_environment
    fs0,        \* the filesystem as that call found it
    gn_args,    \* generate's gn_args dict, as the sequence of its items
    args_str,   \* generate's args_str, as a sequence of atoms
    results,    \* what the last two build_outputs calls returned
    platform,   \* sys.platform, as the bridge module found it when imported
    events,     \* what the last bridge operation did to the XML-RPC service
    returned    \* what the last accessor, GnBuildArgs or constructor call gave

vars == <<self, dry_run, environ, fs, op, cmds, status, failed_at, validated,
          fs0, gn_args, args_str, results, platform, events, returned>>

(***************************************************************************)
(* Bounds of the model.                                                    *)
(***************************************************************************)
\* longest environment value (in atoms) the argument-string check draws
MaxLen == 2
\* how many entries of JniPool the output lib/jni/<ABI> directory may hold
MaxJniFiles == 3
\* how many entries of TreePool a directory at an IMX output path may hold
MaxTreeFiles == 1

RAISE == "<raise>"
NONE == "<None>"

(***************************************************************************)
(* Sequence helpers.                                                       *)
(***************************************************************************)
RECURSIVE Flat(_)
\* the string a sequence of atoms spells
Flat(s) == IF Len(s) = 0 THEN "" ELSE Head(s) \o Flat(Tail(s))

RECURSIVE SeqsUpTo(_, _)
SeqsUpTo(S, n) ==
    IF n = 0 THEN {<<>>}
    ELSE LET shorter == SeqsUpTo(S, n - 1)
         IN  shorter \cup {Append(s, c) : s \in shorter, c \in S}

Prefix(s, n) == SubSeq(s, 1, n)

\* does sequence part occur in sequence whole as a contiguous run
Contains(whole, part) ==
    \E i \in 0..(Len(whole) - Len(part)) :
        SubSeq(whole, i + 1, i + Len(part)) = part

\* os.path.join of components none of which is absolute: an empty leading
\* component adds no separator; a component the source writes with a
\* trailing "/" is passed here without it
RECURSIVE PathJoin(_)
PathJoin(parts) ==
    IF Len(parts) = 1 THEN parts[1]
    ELSE IF parts[1] = "" THEN PathJoin(Tail(parts))
    ELSE parts[1] \o "/" \o PathJoin(Tail(parts))

(***************************************************************************)
(* class AndroidBoard                                                      *)
(***************************************************************************)
AndroidBoard ==
    {"ARM", "ARM64", "X64", "X86",
     "AndroidStudio_ARM", "AndroidStudio_ARM64",
     "AndroidStudio_X64", "AndroidStudio_X86"}

TargetCpuName(b) ==
    IF b \in {"ARM", "AndroidStudio_ARM"} THEN "arm"
    ELSE IF b \in {"ARM64", "AndroidStudio_ARM64"} THEN "arm64"
    ELSE IF b \in {"X64", "AndroidStudio_X64"} THEN "x64"
    ELSE IF b \in {"X86", "AndroidStudio_X86"} THEN "x86"
    ELSE RAISE

AbiName(b) ==
    IF TargetCpuName(b) = "arm" THEN "armeabi-v7a"
    ELSE IF TargetCpuName(b) = "arm64" THEN "arm64-v8a"
    ELSE IF TargetCpuName(b) = "x64" THEN "x86_64"
    ELSE IF TargetCpuName(b) = "x86" THEN "x86"
    ELSE RAISE

IsIde(b) ==
    b \in {"AndroidStudio_ARM", "AndroidStudio_ARM64",
           "AndroidStudio_X64", "AndroidStudio_X86"}

(***************************************************************************)
(* class AndroidApp                                                        *)
(***************************************************************************)
AndroidApp ==
    {"CHIP_TOOL", "CHIP_TEST", "TV_SERVER", "TV_CASTING_APP",
     "JAVA_MATTER_CONTROLLER"}

AppName(a) ==
    IF a = "CHIP_TOOL" THEN "CHIPTool"
    ELSE IF a = "CHIP_TEST" THEN "CHIPTest"
    ELSE IF a = "TV_SERVER" THEN "tv-server"
    ELSE IF a = "TV_CASTING_APP" THEN "tv-casting"
    ELSE RAISE

BoolArg(k, b) == [key |-> k, type |-> "bool", bool |-> b, str |-> <<>>]
StrArg(k, s) == [key |-> k, type |-> "str", bool |-> FALSE, str |-> s]

AppGnArgs(a) ==
    IF a \in {"TV_SERVER", "TV_CASTING_APP"}
    THEN <<BoolArg("chip_config_network_layer_ble", FALSE)>>
    ELSE <<>>

ExampleName(a) ==
    IF a = "TV_SERVER" THEN "tv-app"
    ELSE IF a = "TV_CASTING_APP" THEN "tv-casting-app"
    ELSE NONE

Modules(a) ==
    IF a = "TV_SERVER" THEN <<"platform-app", "content-app">> ELSE <<>>

(***************************************************************************)
(* class AndroidProfile                                                    *)
(***************************************************************************)
AndroidProfile == {"RELEASE", "DEBUG"}


(***************************************************************************)
(* shlex.quote, on a sequence of atoms.  The safe characters are those of  *)
(* [\w@%+=:,./-]; of the atoms this model draws, " ", "'" and the double   *)
(* quote are the unsafe ones.                                              *)
(***************************************************************************)
UnsafeAtoms == {" ", "'", "\""}

RECURSIVE EscapeSingleQuotes(_)
\* s.replace("'", "'\"'\"'")
EscapeSingleQuotes(s) ==
    IF Len(s) = 0 THEN <<>>
    ELSE (IF Head(s) = "'" THEN <<"'", "\"", "'", "\"", "'">> ELSE <<Head(s)>>)
         \o EscapeSingleQuotes(Tail(s))

ShlexQuote(s) ==
    IF Len(s) = 0 THEN <<"'", "'">>
    ELSE IF \A i \in 1..Len(s) : s[i] \notin UnsafeAtoms THEN s
    ELSE <<"'">> \o EscapeSingleQuotes(s) \o <<"'">>

(***************************************************************************)
(* The runner (scripts/build/builders/builder.py and the runner package    *)
(* are not among the sources): _Execute hands the command to the runner,   *)
(* which records it in a dry run and otherwise runs it; a command that     *)
(* fails raises and ends the calling method.  fail = 0 means no command    *)
(* fails, fail = k that the k-th command handed over fails.                *)
(***************************************************************************)
Fails(planned, dry, fail) == ~dry /\ fail \in 1..Len(planned)

Executed(planned, dry, fail) ==
    IF Fails(planned, dry, fail) THEN Prefix(planned, fail) ELSE planned

\* the k-th planned command was handed over and did not fail
Succeeded(planned, dry, fail, k) ==
    k \in 1..Len(planned) /\ (Fails(planned, dry, fail) => k < fail)

(***************************************************************************)
(* AndroidBuilder.validate_build_environment                               *)
(***************************************************************************)
IsExecutableFile(f) == f = "exec"

\* the check of the licenses directory left out
ValidateWithoutLicenses(env, f) ==
    IF "ANDROID_NDK_HOME" \notin DOMAIN env THEN "Environment ANDROID_NDK_HOME missing"
    ELSE IF "ANDROID_HOME" \notin DOMAIN env THEN "Environment ANDROID_HOME missing"
    ELSE IF ~IsExecutableFile(f.sdk_manager) /\ ~IsExecutableFile(f.new_sdk_manager)
         THEN "sdkmanager is not executable"
    ELSE IF f.licenses = "missing"
         THEN (IF ~f.android_home_writable THEN "ANDROID_HOME is NOT writable"
               ELSE "ok")
    ELSE "ok"

validate_build_environment(env, f) ==
    IF "ANDROID_NDK_HOME" \notin DOMAIN env THEN "Environment ANDROID_NDK_HOME missing"
    ELSE IF "ANDROID_HOME" \notin DOMAIN env THEN "Environment ANDROID_HOME missing"
    ELSE IF ~IsExecutableFile(f.sdk_manager) /\ ~IsExecutableFile(f.new_sdk_manager)
         THEN "sdkmanager is not executable"
    ELSE IF f.licenses = "missing"
         THEN (IF ~f.android_home_writable THEN "ANDROID_HOME is NOT writable"
               ELSE "ok")
    ELSE IF f.licenses # "writable" THEN "licenses is NOT writable"
    ELSE "ok"

(***************************************************************************)
(* AndroidBuilder.generate                                                 *)
(***************************************************************************)
SetUpAndroidDeps == <<"python3", "third_party/android_deps/set_up_android_deps.py">>
SetUpJavaDeps == <<"third_party/java_deps/set_up_java_deps.sh">>

\* the gn_args dict of generate, in insertion order
GenerateGnArgs(slf, env) ==
    <<StrArg("target_os", <<"android">>),
      StrArg("target_cpu", <<TargetCpuName(slf.board)>>),
      StrArg("android_ndk_root", env["ANDROID_NDK_HOME"]),
      StrArg("android_sdk_root", env["ANDROID_HOME"])>>
    \o (IF slf.profile # "DEBUG" THEN <<BoolArg("is_debug", FALSE)>> ELSE <<>>)
    \o AppGnArgs(slf.app)

\* a boolean written the way str() writes it
SerializeArgWithStr(item) ==
    IF item.type = "bool"
    THEN (IF item.bool THEN <<item.key, "=", "True", " ">>
          ELSE <<item.key, "=", "False", " ">>)
    ELSE <<item.key, "=", "\"">> \o ShlexQuote(item.str) \o <<"\"", " ">>

\* one pass of the loop over gn_args.items()
SerializeArg(item) ==
    IF item.type = "bool"
    THEN (IF item.bool THEN <<item.key, "=", "true", " ">>
          ELSE <<item.key, "=", "false", " ">>)
    ELSE <<item.key, "=", "\"">> \o ShlexQuote(item.str) \o <<"\"", " ">>

RECURSIVE SerializeArgs(_)
SerializeArgs(items) ==
    IF Len(items) = 0 THEN <<>>
    ELSE SerializeArg(Head(items)) \o SerializeArgs(Tail(items))

GnGen(slf, args) ==
    <<"gn", "gen", "--check", "--fail-on-unused-args", slf.output_dir,
      "--args=" \o Flat(args)>>
    \o (IF ExampleName(slf.app) # NONE
        THEN <<"--root=" \o slf.root \o "/examples/" \o ExampleName(slf.app) \o "/android/">>
        ELSE <<>>)
    \o (IF IsIde(slf.board)
        THEN <<"--ide=json", "--json-ide-script=//scripts/examples/gn_to_cmakelists.py">>
        ELSE <<>>)

AcceptLicenses(env, f) ==
    IF IsExecutableFile(f.new_sdk_manager)
    THEN <<"bash", "-c",
           "yes | " \o PathJoin(<<Flat(env["ANDROID_HOME"]), "cmdline-tools", "latest", "bin", "sdkmanager">>)
                    \o " --licenses >/dev/null">>
    ELSE <<"bash", "-c",
           "yes | " \o PathJoin(<<Flat(env["ANDROID_HOME"]), "tools", "bin", "sdkmanager">>)
                    \o " --licenses >/dev/null">>

\* line 315: generate does nothing more once the output directory exists
NeverSkips(f) == FALSE
SkipsWhenAbsent(f) == ~f.output_dir
GenerateSkips(f) == f.output_dir

\* lines 317-318: the environment is validated unless this is a dry run
ValidatesInDryRun(dry, env, f) == validate_build_environment(env, f)
GenerateValidation(dry, env, f) ==
    IF dry THEN "skipped" ELSE validate_build_environment(env, f)

\* generate when no command fails: the commands in order, how it ends, how
\* often it validated, and its locals gn_args and args_str
GeneratePlan(slf, dry, env, f) ==
    LET deps == <<SetUpAndroidDeps, SetUpJavaDeps>>
        stop(st, v) == [cmds |-> deps, status |-> st, validated |-> v,
                        gn_args |-> <<>>, args_str |-> <<>>]
        checked == GenerateValidation(dry, env, f)
        v == IF checked = "skipped" THEN 0 ELSE 1
    IN  IF GenerateSkips(f) THEN stop("ok", 0)
        ELSE IF checked \notin {"skipped", "ok"} THEN stop(checked, v)
        ELSE IF "ANDROID_NDK_HOME" \notin DOMAIN env THEN stop("KeyError ANDROID_NDK_HOME", v)
        ELSE IF "ANDROID_HOME" \notin DOMAIN env THEN stop("KeyError ANDROID_HOME", v)
        ELSE LET items == GenerateGnArgs(slf, env)
                 args == SerializeArgs(items)
             IN  [cmds |-> deps \o <<GnGen(slf, args), AcceptLicenses(env, f)>>,
                  \* line 381 asks for AppName once more
                  status |-> IF AppName(slf.app) = RAISE THEN "Unknown app type" ELSE "ok",
                  validated |-> v,
                  gn_args |-> items,
                  args_str |-> args]

IsGnGen(c) == Len(c) >= 2 /\ c[1] = "gn" /\ c[2] = "gen"
IsAcceptLicenses(c) == Len(c) = 3 /\ c[1] = "bash"
IsDepsSetup(c) == c = SetUpAndroidDeps \/ c = SetUpJavaDeps

Generate(fail) ==
    /\ self.kind = "android"
    /\ dry_run => fail = 0
    /\ \E plan \in {GeneratePlan(self, dry_run, environ, fs)} :
       LET failed == Fails(plan.cmds, dry_run, fail)
           \* the dependency set-up commands come first: one of them failing
           \* ends the call before the output directory is looked at
           early == failed /\ fail <= 2
       IN  /\ fail <= Len(plan.cmds)
           /\ op' = "generate"
           /\ cmds' = Executed(plan.cmds, dry_run, fail)
           /\ status' = IF failed THEN "command failed" ELSE plan.status
           /\ failed_at' = IF failed THEN fail ELSE 0
           /\ validated' = IF early THEN 0 ELSE plan.validated
           /\ gn_args' = IF early THEN <<>> ELSE plan.gn_args
           /\ args_str' = IF early THEN <<>> ELSE plan.args_str
           \* gn gen, when it runs and succeeds, creates the output directory
           /\ fs' = IF ~dry_run /\ Len(plan.cmds) >= 3
                       /\ Succeeded(plan.cmds, dry_run, fail, 3)
                    THEN [fs EXCEPT !.output_dir = TRUE]
                    ELSE fs
           /\ fs0' = fs
    /\ UNCHANGED <<self, dry_run, environ, results, platform, events, returned>>

(***************************************************************************)
(* AndroidBuilder._build and the methods it calls.  A directory entry is   *)
(* [stem, ext], its name being stem \o ext.                                *)
(***************************************************************************)
\* candidate entries of the output lib/jni/<ABI> directory, each a name
\* split before its last extension
JniPool ==
    <<[stem |-> "libCHIPController", ext |-> ".so"],
      [stem |-> "libc++_shared.so", ext |-> ".1"],
      [stem |-> "libc++_shared", ext |-> ".so"],
      [stem |-> "libTvApp", ext |-> ".so"]>>
JniFiles == {JniPool[i] : i \in 1..(IF MaxJniFiles < Len(JniPool) THEN MaxJniFiles ELSE Len(JniPool))}

FileName(entry) == entry.stem \o entry.ext
EndsWithSo(entry) == entry.ext = ".so"

Cp(from, to) == <<"cp", from, to>>

RECURSIVE CpAll(_, _, _)
\* one cp per name, out of directory from into directory to; a jar is
\* [name, path]: it is copied from its path to its name
CpAll(items, from, to) ==
    IF Len(items) = 0 THEN <<>>
    ELSE <<Cp(PathJoin(<<from, Head(items).path>>), PathJoin(<<to, Head(items).name>>))>>
         \o CpAll(Tail(items), from, to)

Lib(n) == [name |-> n, path |-> n]
Jar(n, p) == [name |-> n, path |-> p]

\* copyToExampleApp
copyToExampleApp(slf, jnilibs_dir, libs_dir, libs, jars) ==
    <<<<"mkdir", "-p", jnilibs_dir>>>>
    \o CpAll(libs, PathJoin(<<slf.output_dir, "lib", "jni", AbiName(slf.board)>>), jnilibs_dir)
    \o CpAll(jars, PathJoin(<<slf.output_dir, "lib">>), libs_dir)

\* copyToSrcAndroid, for an app that has an AppName
copyToSrcAndroid(slf) ==
    copyToExampleApp(slf,
        PathJoin(<<slf.root, "examples/android", AppName(slf.app), "app/libs/jniLibs", AbiName(slf.board)>>),
        PathJoin(<<slf.root, "examples/android", AppName(slf.app), "app/libs">>),
        <<Lib("libSetupPayloadParser.so"), Lib("libCHIPController.so"), Lib("libc++_shared.so")>>,
        <<Jar("CHIPController.jar", "src/controller/java/CHIPController.jar"),
          Jar("SetupPayloadParser.jar", "src/setup_payload/java/SetupPayloadParser.jar"),
          Jar("AndroidPlatform.jar", "src/platform/android/AndroidPlatform.jar")>>)

gradlewBuildSrcAndroid(slf) ==
    <<<<slf.root \o "/examples/android/" \o AppName(slf.app) \o "/gradlew",
        "-p",
        slf.root \o "/examples/android/" \o AppName(slf.app),
        "-PmatterBuildSrcDir=" \o slf.output_dir,
        "-PmatterSdkSourceBuild=false",
        "-PbuildDir=" \o slf.output_dir,
        "assembleDebug">>>>

GradlewExample(slf, build_dir, task) ==
    <<slf.root \o "/examples/" \o ExampleName(slf.app) \o "/android/App/gradlew",
      "-p",
      slf.root \o "/examples/" \o ExampleName(slf.app) \o "/android/App/",
      "-PmatterBuildSrcDir=" \o slf.output_dir,
      "-PmatterSdkSourceBuild=false",
      "-PbuildDir=" \o build_dir,
      task>>

gradlewBuildExampleAndroid(slf) ==
    IF Len(Modules(slf.app)) > 0
    THEN [i \in 1..Len(Modules(slf.app)) |->
             GradlewExample(slf, slf.output_dir \o "/" \o Modules(slf.app)[i],
                            ":" \o Modules(slf.app)[i] \o ":assembleDebug")]
    ELSE <<GradlewExample(slf, slf.output_dir, "assembleDebug")>>

\* every entry stripped, shared library or not
stripEveryEntry(slf, listing) ==
    [i \in 1..Len(listing) |->
        <<"llvm-strip", "-s",
          PathJoin(<<slf.output_dir, "lib", "jni", AbiName(slf.board), FileName(listing[i])>>)>>]

\* stripSymbols, given what os.listdir(output_libs_dir) returned
stripSymbols(slf, listing) ==
    LET libs == SelectSeq(listing, EndsWithSo)
    IN  [i \in 1..Len(libs) |->
            <<"llvm-strip", "-s",
              PathJoin(<<slf.output_dir, "lib", "jni", AbiName(slf.board), FileName(libs[i])>>)>>]

\* lines 423-443 and 446-467: what is staged for the two example apps
ExampleJniLibsDir(slf) ==
    PathJoin(<<slf.root, "examples", ExampleName(slf.app), "android/App/app/libs/jniLibs", AbiName(slf.board)>>)
ExampleLibsDir(slf) ==
    PathJoin(<<slf.root, "examples", ExampleName(slf.app), "android/App/app/libs">>)

TvCastingStaging(slf) ==
    copyToExampleApp(slf, ExampleJniLibsDir(slf), ExampleLibsDir(slf),
        <<Lib("libc++_shared.so"), Lib("libTvCastingApp.so")>>,
        <<Jar("AndroidPlatform.jar", "third_party/connectedhomeip/src/platform/android/AndroidPlatform.jar"),
          Jar("CHIPAppServer.jar", "third_party/connectedhomeip/src/app/server/java/CHIPAppServer.jar"),
          Jar("TvCastingApp.jar", "TvCastingApp.jar")>>)

TvAppStaging(slf) ==
    copyToExampleApp(slf, ExampleJniLibsDir(slf), ExampleLibsDir(slf),
        <<Lib("libSetupPayloadParser.so"), Lib("libc++_shared.so"), Lib("libTvApp.so")>>,
        <<Jar("SetupPayloadParser.jar", "third_party/connectedhomeip/src/setup_payload/java/SetupPayloadParser.jar"),
          Jar("AndroidPlatform.jar", "third_party/connectedhomeip/src/platform/android/AndroidPlatform.jar"),
          Jar("CHIPAppServer.jar", "third_party/connectedhomeip/src/app/server/java/CHIPAppServer.jar"),
          Jar("TvApp.jar", "TvApp.jar")>>)

\* the mobile build ahead of the staging
GradlewBeforeStaging(slf) ==
    IF ExampleName(slf.app) = NONE
    THEN gradlewBuildSrcAndroid(slf) \o copyToSrcAndroid(slf)
    ELSE IF ExampleName(slf.app) = "tv-casting-app"
    THEN gradlewBuildExampleAndroid(slf) \o TvCastingStaging(slf)
    ELSE gradlewBuildExampleAndroid(slf) \o TvAppStaging(slf)

\* lines 418-468: staging, then the mobile build, for an app whose names resolve
StageAndAssemble(slf) ==
    IF ExampleName(slf.app) = NONE
    THEN copyToSrcAndroid(slf) \o gradlewBuildSrcAndroid(slf)
    ELSE IF ExampleName(slf.app) = "tv-casting-app"
    THEN TvCastingStaging(slf) \o gradlewBuildExampleAndroid(slf)
    ELSE TvAppStaging(slf) \o gradlewBuildExampleAndroid(slf)

\* lines 400-411: the one command of an IDE board
IdeAssemble(slf) ==
    <<<<slf.root \o "/examples/android/" \o AppName(slf.app) \o "/gradlew",
        "-p",
        slf.root \o "/examples/android/" \o AppName(slf.app),
        "-PmatterBuildSrcDir=" \o slf.output_dir,
        "-PmatterSdkSourceBuild=true",
        "-PmatterSourceBuildAbiFilters=" \o AbiName(slf.board),
        "assembleDebug">>>>

Ninja(slf) == <<"ninja", "-C", slf.output_dir>>

\* line 470
BuildStrips(slf) == slf.profile # "DEBUG"

\* _build when no command fails: the commands in order and how it ends.
\* dir_exists and listing are what os.listdir(output_libs_dir) finds when
\* stripSymbols comes to ask.
BuildPlan(slf, dir_exists, listing) ==
    IF IsIde(slf.board)
    THEN (IF AppName(slf.app) = RAISE
          THEN [cmds |-> <<>>, status |-> "Unknown app type"]
          ELSE [cmds |-> IdeAssemble(slf), status |-> "ok"])
    ELSE IF ExampleName(slf.app) = NONE /\ AppName(slf.app) = RAISE
    THEN [cmds |-> <<Ninja(slf)>>, status |-> "Unknown app type"]
    ELSE IF ~BuildStrips(slf)
    THEN [cmds |-> <<Ninja(slf)>> \o StageAndAssemble(slf), status |-> "ok"]
    ELSE IF ~dir_exists
    THEN [cmds |-> <<Ninja(slf)>> \o StageAndAssemble(slf), status |-> "FileNotFoundError"]
    ELSE [cmds |-> <<Ninja(slf)>> \o StageAndAssemble(slf) \o stripSymbols(slf, listing),
          status |-> "ok"]

IsNinja(c) == c[1] = "ninja"
IsMkdir(c) == c[1] = "mkdir"
IsCp(c) == c[1] = "cp"
IsStrip(c) == c[1] = "llvm-strip"
IsGradlew(c) == Len(c) = 7 /\ c[2] = "-p"

\* the orders os.listdir may return the entries of a directory in
Listings(files) ==
    {s \in [1..Cardinality(files) -> files] : \A f \in files : \E i \in DOMAIN s : s[i] = f}

\* what os.listdir(output_libs_dir) may return when stripSymbols asks; a
\* _build that never asks is given the empty listing
ListingsAsked(slf, f) ==
    IF ~IsIde(slf.board) /\ BuildStrips(slf) /\ f.jni_dir
    THEN Listings(f.jni_files)
    ELSE {<<>>}

\* fs.jni_dir and fs.jni_files describe the output lib/jni/<ABI> directory
\* as stripSymbols finds it, after the commands before it have run
Build ==
    /\ self.kind = "android"
    /\ \E listing \in ListingsAsked(self, fs) :
       \E plan \in {BuildPlan(self, fs.jni_dir, listing)} :
       \E fail \in 0..Len(plan.cmds) :
          /\ dry_run => fail = 0
          /\ op' = "_build"
          /\ cmds' = Executed(plan.cmds, dry_run, fail)
          /\ status' = IF Fails(plan.cmds, dry_run, fail) THEN "command failed"
                       ELSE plan.status
          /\ failed_at' = IF Fails(plan.cmds, dry_run, fail) THEN fail ELSE 0
    /\ fs0' = fs
    /\ validated' = 0
    /\ gn_args' = <<>>
    /\ args_str' = <<>>
    /\ UNCHANGED <<self, dry_run, environ, fs, results, platform, events, returned>>

(***************************************************************************)
(* build_outputs of the three builders.  A dict is a function from its     *)
(* keys; DictOf builds it from the items in the order they are stored, a   *)
(* later item replacing an earlier one of the same key.                    *)
(***************************************************************************)
DictOf(items) ==
    [k \in {items[i][1] : i \in 1..Len(items)} |->
        items[CHOOSE i \in 1..Len(items) :
                 /\ items[i][1] = k
                 /\ \A j \in (i + 1)..Len(items) : items[j][1] # k][2]]

Returned(items) == [status |-> "ok", outputs |-> DictOf(items)]
Raised(what) == [status |-> what, outputs |-> DictOf(<<>>)]

\* AndroidBuilder.build_outputs
AndroidBuildOutputs(slf) ==
    IF AppName(slf.app) = RAISE /\ (IsIde(slf.board) \/ ExampleName(slf.app) = NONE)
    THEN Raised("Unknown app type")
    ELSE IF IsIde(slf.board)
    THEN Returned(<<
        <<AppName(slf.app) \o "-debug.apk",
          PathJoin(<<slf.root, "examples/android", AppName(slf.app),
                     "app/build/outputs/apk/debug/app-debug.apk">>)>> >>)
    ELSE IF ExampleName(slf.app) # NONE
    THEN (IF slf.app = "TV_SERVER"
          THEN Returned(<<
              <<"tv-sever-platform-app-debug.apk",
                PathJoin(<<slf.output_dir, "platform-app", "outputs", "apk", "debug",
                           "platform-app-debug.apk">>)>>,
              <<"tv-sever-content-app-debug.apk",
                PathJoin(<<slf.output_dir, "content-app", "outputs", "apk", "debug",
                           "content-app-debug.apk">>)>> >>)
          ELSE Returned(<<
              <<AppName(slf.app) \o "app-debug.apk",
                PathJoin(<<slf.output_dir, "outputs", "apk", "debug", "app-debug.apk">>)>> >>))
    ELSE Returned(<<
        <<AppName(slf.app) \o "app-debug.apk",
          PathJoin(<<slf.output_dir, "outputs", "apk", "debug", "app-debug.apk">>)>>,
        <<"CHIPController.jar",
          PathJoin(<<slf.output_dir, "lib", "src/controller/java/CHIPController.jar">>)>>,
        <<"AndroidPlatform.jar",
          PathJoin(<<slf.output_dir, "lib", "src/platform/android/AndroidPlatform.jar">>)>>,
        <<"SetupPayloadParser.jar",
          PathJoin(<<slf.output_dir, "lib", "src/setup_payload/java/SetupPayloadParser.jar">>)>>,
        <<"jni/" \o AbiName(slf.board) \o "/libSetupPayloadParser.so",
          PathJoin(<<slf.output_dir, "lib", "jni", AbiName(slf.board), "libSetupPayloadParser.so">>)>>,
        <<"jni/" \o AbiName(slf.board) \o "/libCHIPController.so",
          PathJoin(<<slf.output_dir, "lib", "jni", AbiName(slf.board), "libCHIPController.so">>)>>,
        <<"jni/" \o AbiName(slf.board) \o "/libc++_shared.so",
          PathJoin(<<slf.output_dir, "lib", "jni", AbiName(slf.board), "libc++_shared.so">>)>> >>)

\* class BouffalolabApp, class BouffalolabBoard
BouffalolabApp == {"LIGHT"}
BouffalolabBoard ==
    {"BL602_IoT_Matter_V1", "BL602_IOT_DVK_3S", "BL602_NIGHT_LIGHT",
     "XT_ZB6_DevKit", "BL706_IoT_DVK", "BL706_NIGHT_LIGHT"}

AppNamePrefix(a, chip_name) ==
    IF a = "LIGHT" THEN "chip-" \o chip_name \o "-lighting-example" ELSE RAISE

\* BouffalolabBuilder.build_outputs
BouffalolabBuildOutputs(slf) ==
    IF AppNamePrefix(slf.app, slf.chip_name) = RAISE THEN Raised("Unknown app type")
    ELSE Returned(<<
        <<AppNamePrefix(slf.app, slf.chip_name) \o ".out",
          PathJoin(<<slf.output_dir, AppNamePrefix(slf.app, slf.chip_name) \o ".out">>)>>,
        <<AppNamePrefix(slf.app, slf.chip_name) \o ".out.map",
          PathJoin(<<slf.output_dir, AppNamePrefix(slf.app, slf.chip_name) \o ".out.map">>)>> >>)

\* class IMXApp
IMXApp ==
    {"CHIP_TOOL", "LIGHT", "THERMOSTAT", "ALL_CLUSTERS", "ALL_CLUSTERS_MINIMAL",
     "OTA_PROVIDER"}

OutputNames(a) ==
    (IF a = "CHIP_TOOL" THEN <<"chip-tool", "chip-tool.map">> ELSE <<>>)
    \o (IF a = "LIGHT" THEN <<"chip-lighting-app", "chip-lighting-app.map">> ELSE <<>>)
    \o (IF a = "THERMOSTAT" THEN <<"thermostat-app", "thermostat-app.map">> ELSE <<>>)
    \o (IF a = "ALL_CLUSTERS"
        THEN <<"chip-all-clusters-app", "chip-all-clusters-app.map">> ELSE <<>>)
    \o (IF a = "ALL_CLUSTERS_MINIMAL"
        THEN <<"chip-all-clusters-minimal-app", "chip-all-clusters-minimal-app.map">>
        ELSE <<>>)
    \o (IF a = "OTA_PROVIDER"
        THEN <<"chip-ota-provider-app", "chip-ota-provider-app.map">> ELSE <<>>)

\* candidate files of a directory found at an output path: a file of the
\* directory itself (dir "") or of its one subdirectory
TreePool ==
    <<[dir |-> "", file |-> "image.bin"],
      [dir |-> "sub", file |-> "image.bin"],
      [dir |-> "", file |-> "image.map"]>>
TreeFiles == {TreePool[i] : i \in 1..(IF MaxTreeFiles < Len(TreePool) THEN MaxTreeFiles ELSE Len(TreePool))}

\* os.walk(path), top down: the files of path, then those of its subdirectory
Walk(path, tree) ==
    LET top == {e \in tree : e.dir = ""}
        sub == {e \in tree : e.dir # ""}
        AsSeq(S, root) ==
            LET order == CHOOSE s \in [1..Cardinality(S) -> S] :
                            \A e \in S : \E i \in DOMAIN s : s[i] = e
            IN  [i \in 1..Cardinality(S) |->
                    <<order[i].file, PathJoin(<<root, order[i].file>>)>>]
    IN  AsSeq(top, path) \o AsSeq(sub, PathJoin(<<path, "sub">>))

RECURSIVE IMXItems(_, _, _)
\* the loop of IMXBuilder.build_outputs over the output names
IMXItems(names, slf, f) ==
    IF Len(names) = 0 THEN <<>>
    ELSE (IF f.out_entries[Head(names)].isdir
          THEN Walk(PathJoin(<<slf.output_dir, Head(names)>>), f.out_entries[Head(names)].files)
          ELSE <<<<Head(names), PathJoin(<<slf.output_dir, Head(names)>>)>>>>)
         \o IMXItems(Tail(names), slf, f)

\* IMXBuilder.build_outputs
IMXBuildOutputs(slf, f) == Returned(IMXItems(OutputNames(slf.app), slf, f))

\* an Android builder that reports its outputs only once they are built
build_outputs_if_built(slf, f) ==
    IF slf.kind = "android"
    THEN (IF f.output_dir THEN AndroidBuildOutputs(slf) ELSE Returned(<<>>))
    ELSE IF slf.kind = "bouffalolab" THEN BouffalolabBuildOutputs(slf)
    ELSE IMXBuildOutputs(slf, f)

\* self.build_outputs(), by the class of the builder
build_outputs(slf, f) ==
    IF slf.kind = "android" THEN AndroidBuildOutputs(slf)
    ELSE IF slf.kind = "bouffalolab" THEN BouffalolabBuildOutputs(slf)
    ELSE IMXBuildOutputs(slf, f)

BuildOutputs ==
    /\ \E r \in {build_outputs(self, fs)} :
          \* with the result goes whether the filesystem differs from the one
          \* the call before this one found
          LET entry == [status |-> r.status, outputs |-> r.outputs,
                        fs_changed |-> (op = "build_outputs" /\ fs # fs0)]
          IN  /\ results' = IF Len(results) < 2 THEN Append(results, entry)
                            ELSE <<results[2], entry>>
              /\ status' = r.status
    /\ op' = "build_outputs"
    /\ cmds' = <<>>
    /\ failed_at' = 0
    /\ fs0' = fs
    /\ validated' = 0
    /\ gn_args' = <<>>
    /\ args_str' = <<>>
    /\ UNCHANGED <<self, dry_run, environ, fs, platform, events, returned>>

(***************************************************************************)
(* The states a builder can be handed.                                     *)
(***************************************************************************)
AndroidBuilders ==
    [kind : {"android"}, board : AndroidBoard, app : AndroidApp,
     profile : AndroidProfile, root : {"root"}, output_dir : {"out"}]

\* os.environ restricted to the names the Android builder reads, each either
\* unset or set to one of values
Environs(values) ==
    UNION {[names -> values] : names \in SUBSET {"ANDROID_NDK_HOME", "ANDROID_HOME"}}

\* an SDK laid out as the builder wants it
GoodEnviron ==
    [k \in {"ANDROID_NDK_HOME", "ANDROID_HOME"} |->
        IF k = "ANDROID_HOME" THEN <<"/opt/android/sdk">> ELSE <<"/opt/android/ndk">>]

FileStates == {"missing", "noexec", "exec"}
DirStates == {"missing", "readonly", "writable"}

GoodFs ==
    [output_dir |-> FALSE, sdk_manager |-> "exec", new_sdk_manager |-> "exec",
     licenses |-> "writable", android_home_writable |-> TRUE,
     jni_dir |-> TRUE, jni_files |-> {}, out_entries |-> <<>>,
     sdk_root |-> "missing", sdk_entries |-> <<>>, sdk_script |-> <<>>]

\* every state of the SDK directory and of the output directory
SdkFsStates ==
    {[GoodFs EXCEPT !.output_dir = o, !.sdk_manager = s, !.new_sdk_manager = n,
                    !.licenses = l, !.android_home_writable = w] :
        o \in BOOLEAN, s \in FileStates, n \in FileStates,
        l \in DirStates, w \in BOOLEAN}

InitCall ==
    /\ op = "none"
    /\ cmds = <<>>
    /\ status = "none"
    /\ failed_at = 0
    /\ validated = 0
    /\ fs0 = fs
    /\ gn_args = <<>>
    /\ args_str = <<>>
    /\ results = <<>>
    /\ platform = "linux"
    /\ events = <<>>
    /\ returned = <<>>

(***************************************************************************)
(* Spec: generate() of an Android builder, called any number of times, in  *)
(* every state of the environment variables and of the SDK directory.      *)
(***************************************************************************)
Init ==
    /\ self \in AndroidBuilders
    /\ dry_run \in BOOLEAN
    /\ environ \in Environs({<<"/opt/android/sdk">>})
    /\ fs \in SdkFsStates
    /\ InitCall

Next == \E fail \in 0..4 : Generate(fail)

Spec == Init /\ [][Next]_vars


(***************************************************************************)
(* Claims about generate().                                                *)
(***************************************************************************)
ValidationErrors ==
    {"Environment ANDROID_NDK_HOME missing", "Environment ANDROID_HOME missing",
     "sdkmanager is not executable", "ANDROID_HOME is NOT writable",
     "licenses is NOT writable"}

NoGnGen == \A i \in 1..Len(cmds) : ~IsGnGen(cmds[i])
NoAcceptLicenses == \A i \in 1..Len(cmds) : ~IsAcceptLicenses(cmds[i])

\* C1: a generate() that found the output directory in place handed no
\* 'gn gen' command to the runner, whatever the board, app, profile and mode.
C1_NoRegenerate ==
    (op = "generate" /\ fs0.output_dir) => NoGnGen

\* a generate() that ran to its end with the directory in place, in either mode
C1_Witness ==
    /\ op = "generate" /\ fs0.output_dir /\ status = "ok"
    /\ Len(cmds) = 2 /\ NoGnGen

\* C2 as stated: with the output directory in place generate() hands the
\* runner no command at all and validates nothing.
C2_Original ==
    (op = "generate" /\ fs0.output_dir) => (cmds = <<>> /\ validated = 0)

\* C2 as amended: with the output directory in place generate() hands the
\* runner the two dependency set-up commands and nothing else (only the
\* first of them when that one fails), validates nothing, builds no
\* argument string and leaves the directory as it is.
C2_SkipsGeneration ==
    (op = "generate" /\ fs0.output_dir) =>
        /\ validated = 0
        /\ cmds = (IF status = "ok" \/ Len(cmds) = 2
                   THEN <<SetUpAndroidDeps, SetUpJavaDeps>>
                   ELSE <<SetUpAndroidDeps>>)
        /\ status \in {"ok", "command failed"}
        /\ gn_args = <<>> /\ args_str = <<>>
        /\ fs = fs0

\* an executing generate() that skipped although the environment is unusable
C2_Witness ==
    /\ op = "generate" /\ fs0.output_dir /\ ~dry_run /\ status = "ok"
    /\ cmds = <<SetUpAndroidDeps, SetUpJavaDeps>>
    /\ validate_build_environment(environ, fs0) # "ok"

\* C3: a generate() in dry-run mode never ran validate_build_environment,
\* whatever the environment variables, the SDK files and the output directory.
C3_DryRunSkipsValidation ==
    (op = "generate" /\ dry_run) => (validated = 0 /\ status \notin ValidationErrors)

\* a dry run that generated although validation would have failed
C3_Witness ==
    /\ op = "generate" /\ dry_run /\ ~fs0.output_dir
    /\ validate_build_environment(environ, fs0) \in ValidationErrors
    /\ status = "ok" /\ ~NoGnGen

\* the conditions C4 lists, read off the environment generate() found
C4_Unusable ==
    \/ "ANDROID_NDK_HOME" \notin DOMAIN environ
    \/ "ANDROID_HOME" \notin DOMAIN environ
    \/ (fs0.sdk_manager # "exec" /\ fs0.new_sdk_manager # "exec")
    \/ fs0.licenses = "readonly"
    \/ (fs0.licenses = "missing" /\ ~fs0.android_home_writable)

\* C4: an executing generate() that found no output directory fails, with
\* neither 'gn gen' nor the license command handed over, when a required
\* variable is unset, no sdkmanager is an executable file, the licenses
\* directory is read-only, or it is missing under a read-only ANDROID_HOME;
\* otherwise validation runs and does not fail.
C4_ValidationFailsFast ==
    (op = "generate" /\ ~dry_run /\ ~fs0.output_dir) =>
        /\ C4_Unusable =>
              /\ status \notin {"ok", "none"}
              /\ NoGnGen /\ NoAcceptLicenses
              /\ status # "command failed" =>
                    (validated = 1 /\ status \in ValidationErrors /\ Len(cmds) = 2)
        /\ ~C4_Unusable =>
              /\ status \notin ValidationErrors
              /\ (status # "command failed" \/ Len(cmds) > 2) => validated = 1
              /\ status = "ok" => (~NoGnGen /\ ~NoAcceptLicenses)

\* the licenses directory alone is at fault and generate() stopped on it
C4_Witness ==
    /\ op = "generate" /\ ~dry_run /\ ~fs0.output_dir
    /\ DOMAIN environ = {"ANDROID_NDK_HOME", "ANDROID_HOME"}
    /\ fs0.new_sdk_manager = "exec"
    /\ fs0.licenses = "readonly" /\ fs0.android_home_writable
    /\ status = "licenses is NOT writable" /\ Len(cmds) = 2


(***************************************************************************)
(* SpecArgs: the argument string of generate().  The SDK is in order, the  *)
(* output directory is absent, and the two environment variables hold      *)
(* every value of up to MaxLen atoms (or are unset); a dry run, as the     *)
(* string is built the same way in both modes.                             *)
(***************************************************************************)
ArgAtoms == {"a", " ", "'"}

InitArgs ==
    /\ self \in AndroidBuilders
    /\ dry_run = TRUE
    /\ environ \in Environs(SeqsUpTo(ArgAtoms, MaxLen))
    /\ fs = GoodFs
    /\ InitCall

NextArgs == \E fail \in 0..4 : Generate(fail)

SpecArgs == InitArgs /\ [][NextArgs]_vars

\* the entry C5 states for a non-boolean argument: key="value"
C5_Verbatim(item) == <<item.key, "=", "\"">> \o item.str \o <<"\"", " ">>

RECURSIVE C5_Escaped(_)
C5_Escaped(s) ==
    IF s = <<>> THEN <<>>
    ELSE IF s[1] = "'" THEN <<"'", "\"", "'", "\"", "'">> \o C5_Escaped(Tail(s))
    ELSE <<s[1]>> \o C5_Escaped(Tail(s))

\* the entry the amended C5 states: the value itself when it is not empty
\* and all of it is shell-safe, and otherwise the value between single quotes
C5_ShellQuoted(item) ==
    LET safe == item.str # <<>> /\ \A i \in 1..Len(item.str) : item.str[i] \notin {" ", "'"}
    IN  <<item.key, "=", "\"">>
        \o (IF safe THEN item.str ELSE <<"'">> \o C5_Escaped(item.str) \o <<"'">>)
        \o <<"\"", " ">>

C5_Booleans ==
    /\ \A i \in 1..Len(gn_args) :
          gn_args[i].type = "bool" =>
              Contains(args_str, <<gn_args[i].key, "=",
                                   IF gn_args[i].bool THEN "true" ELSE "false", " ">>)
    /\ Contains(args_str, <<"is_debug", "=", "false", " ">>) <=> self.profile # "DEBUG"
    /\ Contains(args_str, <<"chip_config_network_layer_ble", "=", "false", " ">>)
          <=> self.app \in {"TV_SERVER", "TV_CASTING_APP"}
    /\ \A i \in 1..Len(args_str) : args_str[i] \notin {"True", "False"}

C5_Built == op = "generate" /\ args_str # <<>>

\* C5 as stated: in the argument string every boolean argument reads
\* key=true or key=false and every other argument reads key="value".
C5_Original ==
    C5_Built =>
        /\ C5_Booleans
        /\ \A i \in 1..Len(gn_args) :
              gn_args[i].type = "str" => Contains(args_str, C5_Verbatim(gn_args[i]))

\* C5 as amended: every boolean argument reads key=true or key=false,
\* is_debug=false is there exactly for a profile other than DEBUG and
\* chip_config_network_layer_ble=false exactly for TV_SERVER and
\* TV_CASTING_APP, and every other argument reads key="q" in double quotes,
\* q being the value as shlex.quote writes it.
C5_Serialized ==
    C5_Built =>
        /\ C5_Booleans
        /\ Len(gn_args) >= 4
        /\ \A i \in 1..Len(gn_args) :
              gn_args[i].type = "str" => Contains(args_str, C5_ShellQuoted(gn_args[i]))

\* a release build of the TV server whose SDK path holds a space
C5_Witness ==
    /\ C5_Built /\ status = "ok"
    /\ self.profile = "RELEASE" /\ self.app = "TV_SERVER"
    /\ environ["ANDROID_HOME"] = <<"a", " ">>
    /\ Contains(args_str, <<"android_sdk_root", "=", "\"", "'", "a", " ", "'", "\"", " ">>)
    /\ Contains(args_str, <<"is_debug", "=", "false", " ">>)


(***************************************************************************)
(* SpecBuild: _build() of an Android builder, called any number of times,  *)
(* with the output lib/jni/<ABI> directory missing or holding any of the   *)
(* entries of JniFiles.                                                    *)
(***************************************************************************)
JniFsStates ==
    {[GoodFs EXCEPT !.output_dir = TRUE, !.jni_dir = FALSE]}
    \cup {[GoodFs EXCEPT !.output_dir = TRUE, !.jni_files = fl] : fl \in SUBSET JniFiles}

InitBuild ==
    /\ self \in AndroidBuilders
    /\ dry_run \in BOOLEAN
    /\ environ = GoodEnviron
    /\ fs \in JniFsStates
    /\ InitCall

NextBuild == Build

SpecBuild == InitBuild /\ [][NextBuild]_vars


(***************************************************************************)
(* Claims about _build().                                                  *)
(***************************************************************************)
IsStaging(c) == IsMkdir(c) \/ IsCp(c)
Built == op = "_build"

\* how many files C6's apps stage: three libraries and three jars out of
\* the source tree, two and three for tv-casting-app, three and four for tv-app
C6_Staged ==
    IF ExampleName(self.app) = NONE THEN 6
    ELSE IF ExampleName(self.app) = "tv-casting-app" THEN 5
    ELSE 7

\* C6: on a non-IDE board every mkdir and cp of _build() comes after the
\* ninja command and before any gradlew command, and by the first gradlew
\* command the jniLibs directory is made and every library and jar copied.
C6_StagingBeforeGradle ==
    (Built /\ ~IsIde(self.board)) =>
        /\ \A i \in 1..Len(cmds) :
              IsStaging(cmds[i]) =>
                  /\ \E j \in 1..(i - 1) : IsNinja(cmds[j])
                  /\ \A j \in 1..(i - 1) : ~IsGradlew(cmds[j])
        /\ \A g \in 1..Len(cmds) :
              (IsGradlew(cmds[g]) /\ \A j \in 1..(g - 1) : ~IsGradlew(cmds[j])) =>
                  /\ g = C6_Staged + 3
                  /\ IsNinja(cmds[1])
                  /\ IsMkdir(cmds[2])
                  /\ \A j \in 3..(g - 1) : IsCp(cmds[j])
        /\ status = "ok" => \E g \in 1..Len(cmds) : IsGradlew(cmds[g])

\* a TV server build that ran to its end: seven files staged, then gradlew
C6_Witness ==
    /\ Built /\ self.board = "ARM64" /\ self.app = "TV_SERVER" /\ status = "ok"
    /\ Len(cmds) >= 11
    /\ IsCp(cmds[9]) /\ IsGradlew(cmds[10]) /\ IsGradlew(cmds[11])

C7_SharedLibraries ==
    {PathJoin(<<self.output_dir, "lib", "jni", AbiName(self.board), FileName(f)>>) :
        f \in {e \in fs.jni_files : e.ext = ".so"}}

\* each .so of the directory stripped once, after every other command
C7_AllStripped ==
    /\ {cmds[i][3] : i \in {k \in 1..Len(cmds) : IsStrip(cmds[k])}} = C7_SharedLibraries
    /\ Cardinality({k \in 1..Len(cmds) : IsStrip(cmds[k])}) = Cardinality(C7_SharedLibraries)
    /\ \A i \in 1..Len(cmds) : IsStrip(cmds[i]) => cmds[i][2] = "-s"
    /\ \A i, j \in 1..Len(cmds) : (IsStrip(cmds[i]) /\ ~IsStrip(cmds[j])) => j < i

C7_NoneStripped == \A i \in 1..Len(cmds) : ~IsStrip(cmds[i])

\* C7 as stated: a _build() that succeeded with a profile other than DEBUG
\* has stripped every .so of lib/jni/<ABI>, on IDE boards too; with DEBUG
\* no strip command is ever issued.
C7_Original ==
    Built =>
        /\ (status = "ok" /\ self.profile # "DEBUG") => C7_AllStripped
        /\ self.profile = "DEBUG" => C7_NoneStripped

\* C7 as amended: a _build() that succeeded on a non-IDE board with a
\* profile other than DEBUG has issued 'llvm-strip -s' once for each .so of
\* lib/jni/<ABI>, after all its other commands; on an IDE board, or with
\* DEBUG, no strip command is ever issued.
C7_StripAfterBuild ==
    Built =>
        /\ (status = "ok" /\ self.profile # "DEBUG" /\ ~IsIde(self.board)) => C7_AllStripped
        /\ (self.profile = "DEBUG" \/ IsIde(self.board)) => C7_NoneStripped

\* a release build that stripped two libraries and left the third entry alone
C7_Witness ==
    /\ Built /\ status = "ok" /\ self.profile = "RELEASE" /\ ~IsIde(self.board)
    /\ Cardinality(fs.jni_files) = 3
    /\ Cardinality(C7_SharedLibraries) = 2
    /\ IsStrip(cmds[Len(cmds)]) /\ IsStrip(cmds[Len(cmds) - 1])
    /\ ~IsStrip(cmds[Len(cmds) - 2])

C8_Gradlews == SelectSeq(cmds, IsGradlew)

\* the -PbuildDir argument and the task of each gradlew run C8 states
C8_Stated ==
    IF self.app = "TV_SERVER"
    THEN <<<<"-PbuildDir=" \o self.output_dir \o "/platform-app", ":platform-app:assembleDebug">>,
           <<"-PbuildDir=" \o self.output_dir \o "/content-app", ":content-app:assembleDebug">>>>
    ELSE <<<<"-PbuildDir=" \o self.output_dir, "assembleDebug">>>>

\* C8: a _build() on a non-IDE board none of whose commands fails runs
\* gradlew once per module, in the order platform-app, content-app, each
\* with -PbuildDir=<output_dir>/<module> and task :<module>:assembleDebug,
\* for the TV server, and once with -PbuildDir=<output_dir> for an app
\* without modules.
C8_OneGradlePerModule ==
    (Built /\ ~IsIde(self.board) /\ status # "command failed") =>
        /\ Len(C8_Gradlews) = Len(C8_Stated)
        /\ \A i \in 1..Len(C8_Gradlews) :
              <<C8_Gradlews[i][6], C8_Gradlews[i][7]>> = C8_Stated[i]

\* what holds of C8: the gradlew runs of any _build() on a non-IDE board
\* are the first of those C8 states, and all of them once _build() has
\* come past the mobile build step
C8_ForAppsThatResolve ==
    (Built /\ ~IsIde(self.board)) =>
        /\ Len(C8_Gradlews) <= Len(C8_Stated)
        /\ \A i \in 1..Len(C8_Gradlews) :
              <<C8_Gradlews[i][6], C8_Gradlews[i][7]>> = C8_Stated[i]
        /\ (status \in {"ok", "FileNotFoundError"}) => Len(C8_Gradlews) = Len(C8_Stated)
        /\ (status # "command failed" /\ AppName(self.app) # RAISE)
              => Len(C8_Gradlews) = Len(C8_Stated)

(***************************************************************************)
(* SpecOutputs: build_outputs() of a builder of any of the three classes,  *)
(* called any number of times while files and directories come and go      *)
(* under the output directory.                                             *)
(***************************************************************************)
BouffalolabBuilders ==
    [kind : {"bouffalolab"}, app : BouffalolabApp, board : BouffalolabBoard,
     chip_name : {"bl702", "bl602"}, root : {"root"}, output_dir : {"out"}]

IMXBuilders ==
    [kind : {"imx"}, app : IMXApp, release : BOOLEAN,
     root : {"root"}, output_dir : {"out"}]

\* what may lie at an output path: no directory, or a directory of files
OutEntries ==
    {[isdir |-> FALSE, files |-> {}]}
    \cup {[isdir |-> TRUE, files |-> fl] : fl \in SUBSET TreeFiles}

\* the states of the output directory that builder slf can meet
OutputFsStates(slf) ==
    IF slf.kind = "imx"
    THEN {[GoodFs EXCEPT !.output_dir = TRUE, !.out_entries = e] :
            e \in [{OutputNames(slf.app)[i] : i \in 1..Len(OutputNames(slf.app))} -> OutEntries]}
    ELSE {[GoodFs EXCEPT !.output_dir = TRUE, !.jni_files = fl] : fl \in SUBSET JniFiles}
         \cup {[GoodFs EXCEPT !.output_dir = o, !.jni_dir = FALSE] : o \in BOOLEAN}

\* files and directories appear or vanish under the output directory
Touch ==
    /\ \E f \in OutputFsStates(self) : f # fs /\ fs' = f
    /\ UNCHANGED <<self, dry_run, environ, op, cmds, status, failed_at, validated, fs0,
                   gn_args, args_str, results, platform, events, returned>>

InitOutputs ==
    /\ self \in AndroidBuilders \cup BouffalolabBuilders \cup IMXBuilders
    /\ dry_run = TRUE
    /\ environ = GoodEnviron
    /\ fs \in OutputFsStates(self)
    /\ InitCall

NextOutputs == BuildOutputs \/ Touch

SpecOutputs == InitOutputs /\ [][NextOutputs]_vars

(***************************************************************************)
(* Claims about build_outputs().                                           *)
(***************************************************************************)
C9_SameMapping ==
    /\ results[1].status = results[2].status
    /\ results[1].outputs = results[2].outputs

\* C9 as stated: two build_outputs() calls on one builder, of any of the
\* three classes, return the same mapping whatever lies under the output
\* directory at either call.
C9_Original == Len(results) = 2 => C9_SameMapping

\* C9 as amended: two build_outputs() calls on one Android or Bouffalolab
\* builder return the same mapping whatever lies under the output directory
\* at either call.
C9_PureOutputs ==
    (Len(results) = 2 /\ self.kind \in {"android", "bouffalolab"}) => C9_SameMapping

\* an Android builder asked twice, the output directory changed in between
C9_Witness ==
    /\ Len(results) = 2 /\ self.kind = "android" /\ self.app = "CHIP_TOOL"
    /\ results[2].fs_changed /\ results[2].status = "ok"
    /\ C9_SameMapping

C10_Last == results[Len(results)]

\* C10: build_outputs() of an Android builder returns, for every board, app
\* and profile, a mapping of one APK for an IDE board, of the platform-app
\* and content-app APKs for the TV server, of one APK for another app with
\* an example name, and of one APK, three jars and three libraries otherwise.
C10_Shape ==
    (op = "build_outputs" /\ self.kind = "android") =>
        LET keys == DOMAIN C10_Last.outputs
            abi == AbiName(self.board)
        IN  /\ C10_Last.status = "ok"
            /\ IF IsIde(self.board) THEN Cardinality(keys) = 1
               ELSE IF self.app = "TV_SERVER"
               THEN keys = {"tv-sever-platform-app-debug.apk", "tv-sever-content-app-debug.apk"}
               ELSE IF ExampleName(self.app) # NONE THEN Cardinality(keys) = 1
               ELSE /\ Cardinality(keys) = 7
                    /\ {"CHIPController.jar", "AndroidPlatform.jar", "SetupPayloadParser.jar",
                        "jni/" \o abi \o "/libSetupPayloadParser.so",
                        "jni/" \o abi \o "/libCHIPController.so",
                        "jni/" \o abi \o "/libc++_shared.so"} \subseteq keys


(***************************************************************************)
(* accessory_server_bridge.py.  A request is the object the operations are *)
(* called on: its arguments are None (or empty) or hold the list 'values'  *)
(* of name/value items.  A value is an int, a str or None.                 *)
(***************************************************************************)
\* how many items the 'values' list of a request may hold
MaxParams == 2

IntVal(n) == [type |-> "int", int |-> n, str |-> ""]
StrVal(s) == [type |-> "str", int |-> 0, str |-> s]
NoneVal == [type |-> "None", int |-> 0, str |-> ""]

\* str(value)
Str(v) ==
    IF v.type = "int" THEN ToString(v.int)
    ELSE IF v.type = "str" THEN v.str
    ELSE "None"

Item(n, v) == [name |-> n, value |-> v]

_DEFAULT_KEY == StrVal("default")
_PORT == 9000
_IP == IF platform = "linux" THEN "10.10.10.5" ELSE "127.0.0.1"

_make_url == "http://" \o _IP \o ":" \o ToString(_PORT) \o "/"

\* the value of the last item of that name
_get_last_option(request, item_name, default_value) ==
    IF request.arguments.truthy
       /\ \E i \in 1..Len(request.arguments.values) :
             request.arguments.values[i].name = item_name
    THEN LET values == request.arguments.values
             last == CHOOSE i \in 1..Len(values) :
                         /\ values[i].name = item_name
                         /\ \A j \in (i + 1)..Len(values) : values[j].name # item_name
         IN  values[last].value
    ELSE default_value

\* the value of the first item of that name, the default when there is none
_get_option(request, item_name, default_value) ==
    IF request.arguments.truthy
       /\ \E i \in 1..Len(request.arguments.values) :
             request.arguments.values[i].name = item_name
    THEN LET values == request.arguments.values
             first == CHOOSE i \in 1..Len(values) :
                         /\ values[i].name = item_name
                         /\ \A j \in 1..(i - 1) : values[j].name # item_name
         IN  values[first].value
    ELSE default_value

\* the flag _get_start_options writes for a name, NONE for a name it has none for
StartFlag(name) ==
    IF name = "discriminator" THEN "--discriminator"
    ELSE IF name = "port" THEN "--secured-device-port"
    ELSE IF name = "kvs" THEN "--KVS"
    ELSE IF name = "minCommissioningTimeout" THEN "--min_commissioning_timeout"
    ELSE IF name = "filepath" THEN "--filepath"
    ELSE IF name = "otaDownloadPath" THEN "--otaDownloadPath"
    ELSE NONE

\* a loop that passes over every name it has no flag for
RECURSIVE StartOptionsLenient(_)
StartOptionsLenient(values) ==
    IF Len(values) = 0 THEN [status |-> "ok", options |-> <<>>]
    ELSE LET rest == StartOptionsLenient(Tail(values))
         IN  IF StartFlag(Head(values).name) # NONE
             THEN [status |-> "ok",
                   options |-> <<StartFlag(Head(values).name), Str(Head(values).value)>>
                               \o rest.options]
             ELSE rest

\* the loop of _get_start_options over the items left: the options it
\* extends the list by, or the KeyError it raises at the first unknown name
RECURSIVE StartOptionsLoop(_)
StartOptionsLoop(values) ==
    IF Len(values) = 0 THEN [status |-> "ok", options |-> <<>>]
    ELSE IF StartFlag(Head(values).name) # NONE
    THEN LET rest == StartOptionsLoop(Tail(values))
         IN  IF rest.status # "ok" THEN rest
             ELSE [status |-> "ok",
                   options |-> <<StartFlag(Head(values).name), Str(Head(values).value)>>
                               \o rest.options]
    ELSE IF Head(values).name # "registerKey"
    THEN [status |-> "KeyError: Unknown key: " \o Head(values).name, options |-> <<>>]
    ELSE StartOptionsLoop(Tail(values))

_get_start_options(request) ==
    IF request.arguments.truthy THEN StartOptionsLoop(request.arguments.values)
    ELSE [status |-> "ok", options |-> <<>>]

\* what the `with xmlrpc.client.ServerProxy(_make_url(), ...) as proxy` block
\* of every operation does: the proxy is made for the URL, the one call of
\* the block is sent, and leaving the block closes the proxy, also when the
\* call raised
Open(url) == [ev |-> "open", url |-> url, proc |-> "", args |-> <<>>, failed |-> FALSE]
Call(proc, args, fail) == [ev |-> "call", url |-> "", proc |-> proc, args |-> args, failed |-> fail]
Close == [ev |-> "close", url |-> "", proc |-> "", args |-> <<>>, failed |-> FALSE]

\* a block that sends a failed call once more
SessionRetries(url, proc, args, fail) ==
    IF fail THEN <<Open(url), Call(proc, args, TRUE), Call(proc, args, FALSE), Close>>
    ELSE <<Open(url), Call(proc, args, FALSE), Close>>

\* a block that never closes its proxy
SessionLeftOpen(url, proc, args, fail) == <<Open(url), Call(proc, args, fail)>>

Session(url, proc, args, fail) == <<Open(url), Call(proc, args, fail), Close>>

Extracted(args) == [status |-> "ok", args |-> args]

\* lines 68-69: the register key, then the options, which may raise
StartExtraction(request) ==
    LET register_key == _get_option(request, "registerKey", _DEFAULT_KEY)
        options == _get_start_options(request)
    IN  IF options.status # "ok" THEN [status |-> options.status, args |-> <<>>]
        ELSE Extracted(<<register_key, options.options>>)

\* the register key of the request never looked up
KeyExtractionIgnoresKey(request) == Extracted(<<_DEFAULT_KEY>>)

\* lines 75, 81, 87
KeyExtraction(request) ==
    Extracted(<<_get_option(request, "registerKey", _DEFAULT_KEY)>>)

\* lines 93-94
MessageExtraction(request) ==
    Extracted(<<_get_option(request, "registerKey", _DEFAULT_KEY),
                <<_get_option(request, "message", NoneVal)>>>>)

\* lines 100-102
OtaImageExtraction(request) ==
    Extracted(<<_get_option(request, "otaImageFilePath", NoneVal),
                _get_option(request, "rawImageFilePath", NoneVal),
                _get_option(request, "rawImageContent", NoneVal)>>)

\* lines 108-109
FilesExtraction(request) ==
    Extracted(<<_get_option(request, "file1", NoneVal),
                _get_option(request, "file2", NoneVal)>>)

\* an operation, given what its extraction came to: the block is entered
\* only when the extraction raised nothing
Perform(operation, extraction, fail) ==
    /\ fail => extraction.status = "ok"
    /\ op' = operation
    /\ events' = IF extraction.status # "ok" THEN <<>>
                 ELSE Session(_make_url, operation, extraction.args, fail)
    /\ status' = IF extraction.status # "ok" THEN extraction.status
                 ELSE IF fail THEN "remote call failed"
                 ELSE "ok"
    /\ UNCHANGED <<self, dry_run, environ, fs, cmds, failed_at, validated, fs0,
                   gn_args, args_str, results, platform, returned>>

start(fail) ==
    /\ self.kind = "request"
    /\ \E e \in {StartExtraction(self)} : Perform("start", e, fail)

stop(fail) ==
    /\ self.kind = "request"
    /\ \E e \in {KeyExtraction(self)} : Perform("stop", e, fail)

reboot(fail) ==
    /\ self.kind = "request"
    /\ \E e \in {KeyExtraction(self)} : Perform("reboot", e, fail)

factoryReset(fail) ==
    /\ self.kind = "request"
    /\ \E e \in {KeyExtraction(self)} : Perform("factoryReset", e, fail)

waitForMessage(fail) ==
    /\ self.kind = "request"
    /\ \E e \in {MessageExtraction(self)} : Perform("waitForMessage", e, fail)

createOtaImage(fail) ==
    /\ self.kind = "request"
    /\ \E e \in {OtaImageExtraction(self)} : Perform("createOtaImage", e, fail)

compareFiles(fail) ==
    /\ self.kind = "request"
    /\ \E e \in {FilesExtraction(self)} : Perform("compareFiles", e, fail)


(***************************************************************************)
(* SpecBridge: the seven operations, called any number of times on one     *)
(* request of up to MaxParams items, on either platform; the remote call   *)
(* of an operation may fail.                                               *)
(***************************************************************************)
StartNames ==
    {"discriminator", "port", "kvs", "minCommissioningTimeout", "filepath",
     "otaDownloadPath", "registerKey"}

\* the items a request is made of: every name an operation asks for, each
\* with a value, and two names no operation asks for
ParamPool ==
    {Item("discriminator", IntVal(1234)), Item("port", IntVal(5540)),
     Item("kvs", StrVal("/tmp/kvs")), Item("minCommissioningTimeout", IntVal(180)),
     Item("filepath", StrVal("/tmp/ota.bin")), Item("otaDownloadPath", NoneVal),
     Item("registerKey", StrVal("key1")), Item("registerKey", StrVal("key2")),
     Item("message", StrVal("ready")),
     Item("otaImageFilePath", StrVal("/tmp/ota.img")),
     Item("rawImageFilePath", StrVal("/tmp/raw.bin")),
     Item("rawImageContent", StrVal("content")),
     Item("file1", StrVal("/tmp/a")), Item("file2", StrVal("/tmp/b")),
     Item("bogus", IntVal(0)), Item("Port", IntVal(5540))}

Requests ==
    {[kind |-> "request", arguments |-> [truthy |-> FALSE, values |-> <<>>]]}
    \cup {[kind |-> "request", arguments |-> [truthy |-> TRUE, values |-> v]] :
            v \in SeqsUpTo(ParamPool, MaxParams)}

Platforms == {"linux", "darwin"}

InitBridge ==
    /\ self \in Requests
    /\ platform \in Platforms
    /\ dry_run = FALSE
    /\ environ = GoodEnviron
    /\ fs = GoodFs
    /\ op = "none" /\ cmds = <<>> /\ status = "none" /\ failed_at = 0 /\ validated = 0
    /\ fs0 = fs /\ gn_args = <<>> /\ args_str = <<>> /\ results = <<>>
    /\ events = <<>> /\ returned = <<>>

NextBridge ==
    \E fail \in BOOLEAN :
        \/ start(fail)
        \/ stop(fail)
        \/ reboot(fail)
        \/ factoryReset(fail)
        \/ waitForMessage(fail)
        \/ createOtaImage(fail)
        \/ compareFiles(fail)

SpecBridge == InitBridge /\ [][NextBridge]_vars


(***************************************************************************)
(* Claims about the bridge operations.                                     *)
(***************************************************************************)
BridgeOperations ==
    {"start", "stop", "reboot", "factoryReset", "waitForMessage",
     "createOtaImage", "compareFiles"}

Bridged == op \in BridgeOperations
Params == IF self.arguments.truthy THEN self.arguments.values ELSE <<>>
KeyErrors == {"KeyError: Unknown key: " \o n : n \in {i.name : i \in ParamPool}}
PassedExtraction == status \in {"ok", "remote call failed"}
NoRemoteCall == \A i \in 1..Len(events) : events[i].ev # "call"
NoConnection == \A i \in 1..Len(events) : events[i].ev # "open"
RemoteCalls == SelectSeq(events, LAMBDA e : e.ev = "call")

C11_Unrecognized == \E i \in 1..Len(Params) : Params[i].name \notin StartNames

\* C11: a start() on a request one of whose parameters, in whatever place of
\* the list, is named none of discriminator, port, kvs,
\* minCommissioningTimeout, filepath, otaDownloadPath, registerKey raised
\* the unknown-key error, opened no connection and issued no remote call.
C11_StartRejectsUnknownKey ==
    (op = "start" /\ C11_Unrecognized) =>
        /\ status \in KeyErrors
        /\ NoConnection /\ NoRemoteCall

\* a start() that stopped on the unknown name behind a known one
C11_Witness ==
    /\ op = "start"
    /\ Params = <<Item("port", IntVal(5540)), Item("bogus", IntVal(0))>>
    /\ status = "KeyError: Unknown key: bogus"
    /\ events = <<>>

\* the parameter names each operation asks its request for
C12_Recognized ==
    IF op = "start" THEN StartNames
    ELSE IF op \in {"stop", "reboot", "factoryReset"} THEN {"registerKey"}
    ELSE IF op = "waitForMessage" THEN {"registerKey", "message"}
    ELSE IF op = "createOtaImage"
    THEN {"otaImageFilePath", "rawImageFilePath", "rawImageContent"}
    ELSE {"file1", "file2"}

\* C12: whichever of the seven operations was called, a request with a
\* parameter name the operation does not ask for made it raise the
\* unknown-key error and issue no remote call.
C12_EveryOperationRejects ==
    (Bridged /\ \E i \in 1..Len(Params) : Params[i].name \notin C12_Recognized) =>
        (status \in KeyErrors /\ NoRemoteCall)

\* C13: an operation that came past its parameter extraction made one proxy
\* for http://10.10.10.5:9000/ (http://127.0.0.1:9000/ off linux), issued
\* one remote call of the procedure of its own name, and closed the proxy,
\* in this order and nothing else, whether or not the call failed.
C13_OneCallPerOperation ==
    (Bridged /\ PassedExtraction) =>
        /\ Len(events) = 3
        /\ events[1].ev = "open"
        /\ events[1].url = (IF platform = "linux" THEN "http://10.10.10.5:9000/"
                            ELSE "http://127.0.0.1:9000/")
        /\ events[2].ev = "call" /\ events[2].proc = op
        /\ events[2].failed = (status = "remote call failed")
        /\ events[3].ev = "close"

\* a factoryReset() off linux whose remote call went through
C13_Witness ==
    /\ op = "factoryReset" /\ status = "ok" /\ platform = "darwin"
    /\ Len(events) = 3 /\ events[1].url = "http://127.0.0.1:9000/"
    /\ events[2].proc = "factoryReset" /\ events[3].ev = "close"

\* the flag C14 states for each parameter name
C14_Flags ==
    [n \in StartNames \ {"registerKey"} |->
        CASE n = "discriminator" -> "--discriminator"
          [] n = "port" -> "--secured-device-port"
          [] n = "kvs" -> "--KVS"
          [] n = "minCommissioningTimeout" -> "--min_commissioning_timeout"
          [] n = "filepath" -> "--filepath"
          [] n = "otaDownloadPath" -> "--otaDownloadPath"]

\* str() of the values the requests hold, written out
C14_StrOf(v) ==
    CASE v = IntVal(1234) -> "1234"
      [] v = IntVal(5540) -> "5540"
      [] v = IntVal(180) -> "180"
      [] v = IntVal(0) -> "0"
      [] v = NoneVal -> "None"
      [] OTHER -> v.str

RECURSIVE C14_Options(_)
C14_Options(values) ==
    IF Len(values) = 0 THEN <<>>
    ELSE (IF Head(values).name = "registerKey" THEN <<>>
          ELSE <<C14_Flags[Head(values).name], C14_StrOf(Head(values).value)>>)
         \o C14_Options(Tail(values))

C14_Keys == SelectSeq(Params, LAMBDA i : i.name = "registerKey")
C14_Key == IF Len(C14_Keys) > 0 THEN C14_Keys[1].value ELSE StrVal("default")

\* C14: a start() that raised no key error issued one remote call, of
\* 'start', with the value of the first registerKey parameter ('default'
\* without one) and the list of flag, str(value) for each other parameter
\* in request order; {discriminator: 1234, port: 5540} gives
\* ["--discriminator", "1234", "--secured-device-port", "5540"] and 'default'.
C14_StartOptions ==
    (op = "start" /\ PassedExtraction) =>
        /\ Len(RemoteCalls) = 1
        /\ RemoteCalls[1].proc = "start"
        /\ RemoteCalls[1].args = <<C14_Key, C14_Options(Params)>>
        /\ Params = <<Item("discriminator", IntVal(1234)), Item("port", IntVal(5540))>> =>
              RemoteCalls[1].args =
                  <<StrVal("default"),
                    <<"--discriminator", "1234", "--secured-device-port", "5540">>>>

\* the start() of {discriminator: 1234, port: 5540}
C14_Witness ==
    /\ op = "start" /\ status = "ok"
    /\ Params = <<Item("discriminator", IntVal(1234)), Item("port", IntVal(5540))>>
    /\ RemoteCalls[1].args =
          <<StrVal("default"), <<"--discriminator", "1234", "--secured-device-port", "5540">>>>

\* the value of the first parameter of that name, None without one
C15_Param(name) ==
    LET named == SelectSeq(Params, LAMBDA i : i.name = name)
    IN  IF Len(named) > 0 THEN named[1].value ELSE NoneVal

\* C15 as stated: the remote call of each of the seven operations has the
\* registration key as its first argument.
C15_Original ==
    (Bridged /\ PassedExtraction) => RemoteCalls[1].args[1] = C14_Key

\* C15 as amended: the remote call of start, stop, reboot, factoryReset and
\* waitForMessage has the registration key as its first argument, followed
\* by the options list (start), by the one-message list (waitForMessage) or
\* by nothing; the call of createOtaImage has the three image parameters and
\* that of compareFiles the two file parameters, and no registration key.
C15_KeyFirst ==
    (Bridged /\ PassedExtraction) =>
        LET args == RemoteCalls[1].args
        IN  CASE op = "start" -> Len(args) = 2 /\ args[1] = C14_Key
              [] op \in {"stop", "reboot", "factoryReset"} -> args = <<C14_Key>>
              [] op = "waitForMessage" ->
                    args = <<C14_Key, <<C15_Param("message")>>>>
              [] op = "createOtaImage" ->
                    args = <<C15_Param("otaImageFilePath"), C15_Param("rawImageFilePath"),
                             C15_Param("rawImageContent")>>
              [] op = "compareFiles" -> args = <<C15_Param("file1"), C15_Param("file2")>>

\* a waitForMessage() that passed on the register key ahead of the message
C15_Witness ==
    /\ op = "waitForMessage" /\ status = "ok"
    /\ Params = <<Item("message", StrVal("ready")), Item("registerKey", StrVal("key1"))>>
    /\ RemoteCalls[1].args = <<StrVal("key1"), <<StrVal("ready")>>>>


(***************************************************************************)
(* SpecAbort: the calls that hand work to something that can fail:         *)
(* generate() and _build() of an Android builder whose SDK is in order,    *)
(* and the seven operations of the bridge.                                 *)
(***************************************************************************)
AbortFsStates ==
    {[GoodFs EXCEPT !.output_dir = o, !.jni_dir = FALSE] : o \in BOOLEAN}
    \cup {[GoodFs EXCEPT !.output_dir = o, !.jni_files = fl] :
            o \in BOOLEAN, fl \in SUBSET JniFiles}

InitAbort ==
    \/ /\ self \in AndroidBuilders
       /\ dry_run \in BOOLEAN
       /\ environ = GoodEnviron
       /\ fs \in AbortFsStates
       /\ InitCall
    \/ InitBridge

NextAbort ==
    \/ \E fail \in 0..4 : Generate(fail)
    \/ Build
    \/ NextBridge

SpecAbort == InitAbort /\ [][NextAbort]_vars

\* the commands the last generate() or _build() would have handed over had
\* none of them failed
C16_Planned ==
    IF op = "generate" THEN {GeneratePlan(self, dry_run, environ, fs0).cmds}
    ELSE {BuildPlan(self, fs0.jni_dir, listing).cmds : listing \in ListingsAsked(self, fs0)}

C16_NoRepeat == \A i, j \in 1..Len(cmds) : i # j => cmds[i] # cmds[j]

\* C16: when the k-th command of a generate() or _build() failed, the call
\* ended in that failure having handed over the first k commands of its
\* run and no other, none of them twice; when the remote call of a bridge
\* operation failed, the operation ended in that failure with the one call
\* issued and the proxy closed.
C16_FailureAborts ==
    /\ (op \in {"generate", "_build"} /\ failed_at > 0) =>
          /\ status = "command failed"
          /\ Len(cmds) = failed_at
          /\ \E planned \in C16_Planned : cmds = Prefix(planned, failed_at)
          /\ C16_NoRepeat
    /\ (Bridged /\ \E i \in 1..Len(events) : events[i].failed) =>
          /\ status = "remote call failed"
          /\ Len(RemoteCalls) = 1
          /\ events[Len(events)].ev = "close"

\* a generate() whose 'gn gen' failed: no license command after it
C16_Witness ==
    /\ op = "generate" /\ failed_at = 3 /\ status = "command failed"
    /\ Len(cmds) = 3 /\ IsGnGen(cmds[3]) /\ NoAcceptLicenses

\* a _build() that stopped at a failing cp, and a bridge call that failed
C16_BuildStopped ==
    /\ op = "_build" /\ failed_at = 5 /\ IsCp(cmds[5]) /\ Len(cmds) = 5
C16_CallFailed ==
    /\ op = "start" /\ status = "remote call failed" /\ Len(events) = 3


(***************************************************************************)
(* The name accessors of the enumerations not yet given above.             *)
(***************************************************************************)
\* AndroidProfile.ProfileName
ProfileName(p) ==
    IF p = "RELEASE" THEN "release"
    ELSE IF p = "DEBUG" THEN "debug"
    ELSE RAISE

\* BouffalolabApp.ExampleName
BouffalolabExampleName(a) == IF a = "LIGHT" THEN "lighting-app" ELSE RAISE

\* BouffalolabApp.FlashBundleName
FlashBundleName(a) == IF a = "LIGHT" THEN "lighting_app.flashbundle.txt" ELSE RAISE

\* BouffalolabBoard.GnArgName
GnArgName(b) ==
    IF b = "BL602_IoT_Matter_V1" THEN "BL602-IoT-Matter-V1"
    ELSE IF b = "BL602_IOT_DVK_3S" THEN "BL602-IOT-DVK-3S"
    ELSE IF b = "BL602_NIGHT_LIGHT" THEN "BL602-NIGHT-LIGHT"
    ELSE IF b = "XT_ZB6_DevKit" THEN "XT-ZB6-DevKit"
    ELSE IF b = "BL706_IoT_DVK" THEN "BL706-IoT-DVK"
    ELSE IF b = "BL706_NIGHT_LIGHT" THEN "BL706-NIGHT-LIGHT"
    ELSE RAISE

\* IMXApp.ExamplePath: a chain of ifs with no else, so None at its end
ExamplePath(a) ==
    IF a = "CHIP_TOOL" THEN "chip-tool"
    ELSE IF a = "LIGHT" THEN "lighting-app/linux"
    ELSE IF a = "THERMOSTAT" THEN "thermostat/linux"
    ELSE IF a = "ALL_CLUSTERS" THEN "all-clusters-app/linux"
    ELSE IF a = "ALL_CLUSTERS_MINIMAL" THEN "all-clusters-minimal-app/linux"
    ELSE IF a = "OTA_PROVIDER" THEN "ota-provider-app/linux"
    ELSE NONE

\* the enumerations with their members and their name accessors
EnumClasses ==
    [AndroidBoard |-> [members |-> AndroidBoard, accessors |-> {"TargetCpuName", "AbiName"}],
     AndroidApp |-> [members |-> AndroidApp, accessors |-> {"AppName"}],
     AndroidProfile |-> [members |-> AndroidProfile, accessors |-> {"ProfileName"}],
     BouffalolabApp |-> [members |-> BouffalolabApp,
                         accessors |-> {"ExampleName", "AppNamePrefix", "FlashBundleName"}],
     BouffalolabBoard |-> [members |-> BouffalolabBoard, accessors |-> {"GnArgName"}],
     IMXApp |-> [members |-> IMXApp, accessors |-> {"ExamplePath", "OutputNames"}]]

\* a call that returned value, or raised what when value is RAISE
Outcome(value, what) ==
    IF value = RAISE THEN [status |-> what, returned |-> <<>>]
    ELSE [status |-> "ok", returned |-> <<value>>]

\* accessor called on value m: what it returned (for OutputNames the names
\* it yielded) or what it raised
Resolve(accessor, m, chip_name) ==
    CASE accessor = "TargetCpuName" -> Outcome(TargetCpuName(m), "Unknown board type")
      [] accessor = "AbiName" -> Outcome(AbiName(m), "Unknown board type")
      [] accessor = "AppName" -> Outcome(AppName(m), "Unknown app type")
      [] accessor = "ProfileName" -> Outcome(ProfileName(m), "Unknown profile type")
      [] accessor = "ExampleName" -> Outcome(BouffalolabExampleName(m), "Unknown app type")
      [] accessor = "AppNamePrefix" -> Outcome(AppNamePrefix(m, chip_name), "Unknown app type")
      [] accessor = "FlashBundleName" -> Outcome(FlashBundleName(m), "Unknown app type")
      [] accessor = "GnArgName" -> Outcome(GnArgName(m), "Unknown board #")
      [] accessor = "ExamplePath" -> Outcome(ExamplePath(m), "")
      [] accessor = "OutputNames" -> [status |-> "ok", returned |-> OutputNames(m)]

ChipNames == {"bl602", "bl702"}

CallAccessor ==
    /\ self.kind = "enum"
    /\ \E accessor \in EnumClasses[self.class].accessors :
       \E chip_name \in (IF accessor = "AppNamePrefix" THEN ChipNames ELSE {"bl702"}) :
       \E r \in {Resolve(accessor, self.member, chip_name)} :
          /\ op' = accessor
          /\ status' = r.status
          /\ returned' = r.returned
    /\ UNCHANGED <<self, dry_run, environ, fs, cmds, failed_at, validated, fs0,
                   gn_args, args_str, results, platform, events>>

(***************************************************************************)
(* SpecEnums: every name accessor of every enumeration, called on every    *)
(* member of its enumeration and on values that are no member of it.       *)
(***************************************************************************)
\* values no accessor has a case for
NonMembers == {NONE, "<member of another enumeration>"}

EnumValues ==
    UNION {[kind : {"enum"}, class : {c}, member : EnumClasses[c].members \cup NonMembers] :
            c \in DOMAIN EnumClasses}

InitEnums ==
    /\ self \in EnumValues
    /\ dry_run = TRUE
    /\ environ = GoodEnviron
    /\ fs = GoodFs
    /\ InitCall

NextEnums == CallAccessor

SpecEnums == InitEnums /\ [][NextEnums]_vars

C17_Called == self.kind = "enum" /\ op \in EnumClasses[self.class].accessors
C17_Member == self.member \in EnumClasses[self.class].members

\* C17: a name accessor called on a member of its enumeration returned a
\* name (OutputNames at least one) and raised nothing; called on a value it
\* has no case for, it raised an error and returned nothing.
C17_EnumsResolve ==
    C17_Called =>
        /\ C17_Member => (status = "ok" /\ Len(returned) > 0 /\ returned[1] # NONE)
        /\ ~C17_Member => (status # "ok" /\ returned = <<>>)

\* what holds of C17: only AppName fails on a member, JAVA_MATTER_CONTROLLER,
\* and only the two IMXApp accessors raise nothing on a value without a case
C17_ButForAppNameAndIMX ==
    C17_Called =>
        /\ (C17_Member /\ self.member # "JAVA_MATTER_CONTROLLER") =>
              (status = "ok" /\ Len(returned) > 0 /\ returned[1] # NONE)
        /\ (C17_Member /\ self.member = "JAVA_MATTER_CONTROLLER") =>
              (status = "Unknown app type" /\ returned = <<>>)
        /\ (~C17_Member /\ self.class # "IMXApp") => (status # "ok" /\ returned = <<>>)
        /\ (~C17_Member /\ op = "ExamplePath") => (status = "ok" /\ returned = <<NONE>>)
        /\ (~C17_Member /\ op = "OutputNames") => (status = "ok" /\ returned = <<>>)


(***************************************************************************)
(* IMXBuilder.GnBuildArgs.  The SDK directory is fs.sdk_root ("missing",   *)
(* "file" or "dir"), fs.sdk_entries what os.listdir returns for it, each   *)
(* name split behind a leading "environment-setup-", and fs.sdk_script the *)
(* lines of the setup script: [var, value] for a line `export var=value`   *)
(* (value a sequence of atoms), var "" for any other line.                 *)
(***************************************************************************)
\* how many further lines the setup script may hold after its export lines
MaxExtraLines == 1

\* shlex.split over the atoms left: tokens are the tokens closed so far,
\* cur the one being read (open tells whether one is), quote the quote
\* character being inside of ("" outside quotes)
RECURSIVE ShlexSplitFrom(_, _, _, _, _)
ShlexSplitFrom(s, tokens, cur, open, quote) ==
    IF Len(s) = 0
    THEN (IF quote # "" THEN [status |-> "ValueError: No closing quotation", tokens |-> <<>>]
          ELSE [status |-> "ok", tokens |-> IF open THEN Append(tokens, cur) ELSE tokens])
    ELSE IF quote # ""
    THEN (IF Head(s) = quote THEN ShlexSplitFrom(Tail(s), tokens, cur, TRUE, "")
          ELSE ShlexSplitFrom(Tail(s), tokens, Append(cur, Head(s)), TRUE, quote))
    ELSE IF Head(s) \in {"\"", "'"} THEN ShlexSplitFrom(Tail(s), tokens, cur, TRUE, Head(s))
    ELSE IF Head(s) = " "
    THEN (IF open THEN ShlexSplitFrom(Tail(s), Append(tokens, cur), <<>>, FALSE, "")
          ELSE ShlexSplitFrom(Tail(s), tokens, cur, FALSE, ""))
    ELSE ShlexSplitFrom(Tail(s), tokens, Append(cur, Head(s)), TRUE, "")

ShlexSplit(s) == ShlexSplitFrom(s, <<>>, <<>>, FALSE, "")

\* shlex.split(m[1])[0]
FirstToken(value) ==
    LET split == ShlexSplit(value)
    IN  IF split.status # "ok" THEN [status |-> split.status, token |-> <<>>]
        ELSE IF Len(split.tokens) = 0
        THEN [status |-> "IndexError: list index out of range", token |-> <<>>]
        ELSE [status |-> "ok", token |-> split.tokens[1]]

\* token[:-1], the last atom of a token being its last character
DropLast(token) == IF Len(token) = 0 THEN <<>> ELSE SubSeq(token, 1, Len(token) - 1)

RECURSIVE Replace(_, _, _)
\* s.replace(old, new), old being one atom
Replace(s, old, new) ==
    IF Len(s) = 0 THEN <<>>
    ELSE (IF Head(s) = old THEN new ELSE <<Head(s)>>) \o Replace(Tail(s), old, new)

\* IMXBuilder.SysRootPath
SysRootPath(env, name) ==
    IF name \notin DOMAIN env
    THEN [status |-> "Missing environment variable", path |-> <<>>]
    ELSE [status |-> "ok", path |-> env[name]]

\* lines 106-128, over the lines left; vars are the local variables bound
\* so far, a function from their names
RECURSIVE ReadSetupScript(_, _)
ReadSetupScript(lines, vars_bound) ==
    IF Len(lines) = 0 THEN [status |-> "ok", vars |-> vars_bound]
    ELSE IF Head(lines).var \notin {"SDKTARGETSYSROOT", "CC", "CXX", "ARCH", "CROSS_COMPILE"}
    THEN ReadSetupScript(Tail(lines), vars_bound)
    ELSE LET first == FirstToken(Head(lines).value)
             var == Head(lines).var
         IN  IF first.status # "ok" THEN [status |-> first.status, vars |-> vars_bound]
             ELSE IF var = "SDKTARGETSYSROOT"
             THEN ReadSetupScript(Tail(lines), ("sdk_target_sysroot" :> first.token) @@ vars_bound)
             ELSE IF var = "CC"
             THEN ReadSetupScript(Tail(lines), ("cc" :> first.token) @@ vars_bound)
             ELSE IF var = "CXX"
             THEN ReadSetupScript(Tail(lines), ("cxx" :> first.token) @@ vars_bound)
             ELSE IF var = "ARCH"
             THEN (IF Flat(first.token) = "arm64"
                   THEN ReadSetupScript(Tail(lines),
                            ("target_cpu" :> first.token) @@ ("arm_arch" :> <<"armv8-a">>) @@ vars_bound)
                   ELSE IF Flat(first.token) = "arm"
                   THEN ReadSetupScript(Tail(lines),
                            ("target_cpu" :> first.token) @@ ("arm_arch" :> <<"armv7ve">>) @@ vars_bound)
                   ELSE [status |-> "ARCH should be arm64 or arm in the SDK environment setup script.",
                         vars |-> vars_bound])
             ELSE ReadSetupScript(Tail(lines), ("cross_compile" :> DropLast(first.token)) @@ vars_bound)

NoVars == [n \in {} |-> <<>>]

\* lines 149-168: the list GnBuildArgs returns, each argument a sequence of
\* atoms; a local variable that was never bound is a NameError
GnArgsList(slf, root_path, vars_bound) ==
    IF \E n \in {"target_cpu", "arm_arch", "sdk_target_sysroot", "cross_compile", "cc", "cxx"} :
          n \notin DOMAIN vars_bound
    THEN [status |-> "NameError", args |-> <<>>]
    ELSE LET bin == root_path \o <<"/sysroots/x86_64-pokysdk-linux/usr/bin/">>
                    \o vars_bound["cross_compile"] \o <<"/">>
         IN  [status |-> "ok",
              args |->
                <<<<"treat_warnings_as_errors=false">>,
                  <<"target_os=\"linux\"">>,
                  <<"target_cpu=\"">> \o vars_bound["target_cpu"] \o <<"\"">>,
                  <<"arm_arch=\"">> \o vars_bound["arm_arch"] \o <<"\"">>,
                  <<"import(\"//build_overrides/build.gni\")">>,
                  <<"custom_toolchain=\"${build_root}/toolchain/custom\"">>,
                  <<"sysroot=\"">> \o vars_bound["sdk_target_sysroot"] \o <<"\"">>,
                  <<"target_cflags=[ \"-DCHIP_DEVICE_CONFIG_WIFI_STATION_IF_NAME=\\\"mlan0\\\"\", \"-DCHIP_DEVICE_CONFIG_LINUX_DHCPC_CMD=\\\"udhcpc -b -i %s \\\"\" ]">>,
                  <<"target_cc=\"">> \o bin \o vars_bound["cc"] \o <<"\"">>,
                  <<"target_cxx=\"">> \o bin \o vars_bound["cxx"] \o <<"\"">>,
                  <<"target_ar=\"">> \o bin \o vars_bound["cross_compile"] \o <<"-ar", "\"">>>>
                \o (IF slf.release THEN <<<<"is_debug=false">>>>
                    ELSE <<<<"optimize_debug=true">>>>)]

\* lines 86-91: the values of the CI test
DefaultVars(root_path) ==
    [n \in {"target_cpu", "arm_arch", "sdk_target_sysroot", "cross_compile", "cc", "cxx"} |->
        CASE n = "target_cpu" -> <<"arm64">>
          [] n = "arm_arch" -> <<"armv8-a">>
          [] n = "sdk_target_sysroot" ->
                root_path \o <<"/", "sysroots/cortexa53-crypto-poky-linux">>
          [] n = "cross_compile" -> <<"aarch64-poky-linux">>
          [] n = "cc" -> <<"aarch64-poky-linux-gcc">>
          [] n = "cxx" -> <<"aarch64-poky-linux-g++">>]

IsSetupScript(entry) == entry[1] = "environment-setup-"

\* lines 130-147, with the replacements of lines 141-142
CheckSetupVars(vars_bound) ==
    IF "sdk_target_sysroot" \notin DOMAIN vars_bound
    THEN [status |-> "SDKTARGETSYSROOT is not found in the SDK environment setup script.",
          vars |-> vars_bound]
    ELSE IF "cc" \notin DOMAIN vars_bound \/ "cxx" \notin DOMAIN vars_bound
    THEN [status |-> "CC and/or CXX are not found in the SDK environment setup script.",
          vars |-> vars_bound]
    ELSE IF "target_cpu" \notin DOMAIN vars_bound \/ "cross_compile" \notin DOMAIN vars_bound
    THEN [status |-> "ARCH and/or CROSS_COMPILE are not found in the SDK environment setup script.",
          vars |-> vars_bound]
    ELSE [status |-> "ok",
          vars |-> [vars_bound EXCEPT
                      !["cc"] = Replace(@, "$SDKTARGETSYSROOT", vars_bound["sdk_target_sysroot"]),
                      !["cxx"] = Replace(@, "$SDKTARGETSYSROOT", vars_bound["sdk_target_sysroot"])]]

\* IMXBuilder.GnBuildArgs
GnBuildArgs(slf, env, f) ==
    LET root == SysRootPath(env, "IMX_SDK_ROOT")
        raise(what) == [status |-> what, args |-> <<>>]
    IN  IF root.status # "ok" THEN raise(root.status)
        \* os.listdir of a path that is no directory: not the error line 82 catches
        ELSE IF f.sdk_root = "file" THEN raise("NotADirectoryError")
        ELSE IF f.sdk_root = "missing"
        THEN (IF Flat(root.path) # "IMX_SDK_ROOT"
              THEN raise("the value of env IMX_SDK_ROOT is not a valid path.")
              ELSE GnArgsList(slf, root.path, DefaultVars(root.path)))
        ELSE IF SelectSeq(f.sdk_entries, IsSetupScript) = <<>>
        THEN raise("The SDK environment setup script is not found, make sure the env IMX_SDK_ROOT is correctly set.")
        ELSE LET read == ReadSetupScript(f.sdk_script, NoVars)
                 checked == CheckSetupVars(read.vars)
             IN  IF read.status # "ok" THEN raise(read.status)
                 ELSE IF checked.status # "ok" THEN raise(checked.status)
                 ELSE GnArgsList(slf, root.path, checked.vars)

CallGnBuildArgs ==
    /\ self.kind = "imx"
    /\ \E r \in {GnBuildArgs(self, environ, fs)} :
          /\ status' = r.status
          /\ returned' = r.args
    /\ op' = "GnBuildArgs"
    /\ UNCHANGED <<self, dry_run, environ, fs, cmds, failed_at, validated, fs0,
                   gn_args, args_str, results, platform, events>>


(***************************************************************************)
(* SpecIMX: GnBuildArgs() of an IMX builder, with IMX_SDK_ROOT unset, the  *)
(* literal 'IMX_SDK_ROOT' or a path, the path missing, a file or a         *)
(* directory, and every setup script of ScriptPool.                        *)
(***************************************************************************)
Export(var, value) == [var |-> var, value |-> value]

\* the export lines a script may hold for each variable: none, or one with
\* a value as the SDK writes it, an empty one or one with an open quote
ExportChoices ==
    [SDKTARGETSYSROOT |-> {<<>>,
                           <<Export("SDKTARGETSYSROOT", <<"/opt/imx/sysroots/cortexa53">>)>>,
                           <<Export("SDKTARGETSYSROOT", <<>>)>>},
     CC |-> {<<>>,
             <<Export("CC", <<"\"", "aarch64-poky-linux-gcc", " ", "--sysroot=",
                              "$SDKTARGETSYSROOT", "\"">>)>>},
     CXX |-> {<<>>,
              <<Export("CXX", <<"aarch64-poky-linux-g++", " ", "-O2">>)>>,
              <<Export("CXX", <<"\"", "aarch64-poky-linux-g++", " ", "-O2">>)>>},
     ARCH |-> {<<>>,
               <<Export("ARCH", <<"arm64">>)>>,
               <<Export("ARCH", <<"arm">>)>>,
               <<Export("ARCH", <<"x86">>)>>},
     CROSS_COMPILE |-> {<<>>,
                        <<Export("CROSS_COMPILE", <<"aarch64-poky-linux", "-">>)>>}]

\* lines that may follow: a comment, or a variable exported once more
ExtraLines ==
    {Export("", <<>>), Export("ARCH", <<"arm">>), Export("ARCH", <<"riscv">>),
     Export("CC", <<"clang">>)}

ScriptPool ==
    {s \o c \o x \o a \o p \o extra :
        s \in ExportChoices.SDKTARGETSYSROOT, c \in ExportChoices.CC,
        x \in ExportChoices.CXX, a \in ExportChoices.ARCH,
        p \in ExportChoices.CROSS_COMPILE, extra \in SeqsUpTo(ExtraLines, MaxExtraLines)}

SetupEntry == <<"environment-setup-", "cortexa53-crypto-poky-linux">>

IMXSdkStates ==
    {[GoodFs EXCEPT !.sdk_root = r] : r \in {"missing", "file"}}
    \cup {[GoodFs EXCEPT !.sdk_root = "dir", !.sdk_entries = e] :
            e \in {<<>>, <<<<"sysroots">>, <<"version-cortexa53">>>>}}
    \cup {[GoodFs EXCEPT !.sdk_root = "dir", !.sdk_entries = e, !.sdk_script = sc] :
            e \in {<<<<"sysroots">>, SetupEntry>>, <<SetupEntry, <<"sysroots">>>>},
            sc \in ScriptPool}

IMXEnvirons ==
    {NoVars} \cup {[n \in {"IMX_SDK_ROOT"} |-> v] : v \in {<<"IMX_SDK_ROOT">>, <<"/opt/imx">>}}

InitIMX ==
    /\ self \in {b \in IMXBuilders : b.app \in {"CHIP_TOOL", "LIGHT"}}
    /\ dry_run = TRUE
    /\ environ \in IMXEnvirons
    /\ fs \in IMXSdkStates
    /\ InitCall

NextIMX == CallGnBuildArgs

SpecIMX == InitIMX /\ [][NextIMX]_vars

IMXCalled == op = "GnBuildArgs"

\* the errors GnBuildArgs and SysRootPath raise themselves
C18_Descriptive ==
    {"Missing environment variable",
     "the value of env IMX_SDK_ROOT is not a valid path.",
     "The SDK environment setup script is not found, make sure the env IMX_SDK_ROOT is correctly set.",
     "SDKTARGETSYSROOT is not found in the SDK environment setup script.",
     "CC and/or CXX are not found in the SDK environment setup script.",
     "ARCH and/or CROSS_COMPILE are not found in the SDK environment setup script.",
     "ARCH should be arm64 or arm in the SDK environment setup script."}

C18_Exported(var) == \E i \in 1..Len(fs.sdk_script) : fs.sdk_script[i].var = var
C18_Arch == {Flat(fs.sdk_script[i].value) : i \in {k \in 1..Len(fs.sdk_script) : fs.sdk_script[k].var = "ARCH"}}
C18_Reads == "IMX_SDK_ROOT" \in DOMAIN environ /\ fs.sdk_root = "dir"
C18_HasScript == \E i \in 1..Len(fs.sdk_entries) : fs.sdk_entries[i][1] = "environment-setup-"

\* the conditions under which C18 says GnBuildArgs raises
C18_MustRaise ==
    \/ "IMX_SDK_ROOT" \notin DOMAIN environ
    \/ ("IMX_SDK_ROOT" \in DOMAIN environ /\ fs.sdk_root = "missing"
        /\ Flat(environ["IMX_SDK_ROOT"]) # "IMX_SDK_ROOT")
    \/ (C18_Reads /\ ~C18_HasScript)
    \/ (C18_Reads /\ C18_HasScript
        /\ \E v \in {"SDKTARGETSYSROOT", "CC", "CXX", "ARCH", "CROSS_COMPILE"} : ~C18_Exported(v))
    \/ (C18_Reads /\ C18_HasScript /\ C18_Arch \ {"arm64", "arm"} # {})

C18_Keys == {returned[i][1] : i \in 1..Len(returned)}
C18_Value(key) == (CHOOSE i \in 1..Len(returned) : returned[i][1] = key)

\* the list C18 says is returned
C18_Complete ==
    /\ {"target_cpu=\"", "arm_arch=\"", "sysroot=\"", "target_cc=\"", "target_cxx=\"",
        "target_ar=\""} \subseteq C18_Keys
    /\ returned[C18_Value("target_cpu=\"")][2] = "arm64" =>
          returned[C18_Value("arm_arch=\"")][2] = "armv8-a"
    /\ returned[C18_Value("target_cpu=\"")][2] = "arm" =>
          returned[C18_Value("arm_arch=\"")][2] = "armv7ve"
    /\ returned[C18_Value("target_cpu=\"")][2] \in {"arm64", "arm"}
    /\ (<<"is_debug=false">> \in {returned[i] : i \in 1..Len(returned)}) = self.release
    /\ (<<"optimize_debug=true">> \in {returned[i] : i \in 1..Len(returned)}) = ~self.release

\* C18: GnBuildArgs() raised one of its own errors when IMX_SDK_ROOT is
\* unset, names a missing path other than 'IMX_SDK_ROOT', the SDK directory
\* has no environment-setup- entry, one of the five variables has no export
\* line or ARCH is neither arm64 nor arm; in every other case it returned a
\* list with target_cpu, arm_arch (armv8-a for arm64, armv7ve for arm),
\* sysroot, target_cc, target_cxx, target_ar and one of is_debug=false and
\* optimize_debug=true; it never ended in a NameError.
C18_RaisesOrReturns ==
    IMXCalled =>
        /\ status # "NameError"
        /\ C18_MustRaise => (status \in C18_Descriptive /\ returned = <<>>)
        /\ ~C18_MustRaise => (status = "ok" /\ C18_Complete)

\* the inputs C18 does not reckon with: an SDK root that is a file, and an
\* export line whose value is empty or has an open quote
C18_Malformed ==
    \/ ("IMX_SDK_ROOT" \in DOMAIN environ /\ fs.sdk_root = "file")
    \/ (C18_Reads /\ C18_HasScript
        /\ \E i \in 1..Len(fs.sdk_script) :
              /\ fs.sdk_script[i].var # ""
              /\ FirstToken(fs.sdk_script[i].value).status # "ok")

\* what holds of C18: it holds of every input but those, and on those
\* GnBuildArgs() raises as well, though not always an error of its own
C18_ButForMalformed ==
    IMXCalled =>
        /\ status # "NameError"
        /\ (~C18_Malformed /\ C18_MustRaise) => (status \in C18_Descriptive /\ returned = <<>>)
        /\ (~C18_Malformed /\ ~C18_MustRaise) => (status = "ok" /\ C18_Complete)
        /\ C18_Malformed =>
              /\ returned = <<>>
              /\ status \in C18_Descriptive
                            \cup {"NotADirectoryError", "IndexError: list index out of range",
                                  "ValueError: No closing quotation"}

\* a script with all five exports whose `export SDKTARGETSYSROOT=` is empty
C18_EmptyExport ==
    /\ IMXCalled /\ ~C18_MustRaise
    /\ status = "IndexError: list index out of range"

\* a complete script read to its end: the sysroot put into the compiler
C18_Returned ==
    /\ IMXCalled /\ status = "ok" /\ C18_Reads /\ self.release
    /\ <<"target_cc=\"", "/opt/imx", "/sysroots/x86_64-pokysdk-linux/usr/bin/",
         "aarch64-poky-linux", "/", "aarch64-poky-linux-gcc", " ", "--sysroot=",
         "/opt/imx/sysroots/cortexa53", "\"">> \in {returned[i] : i \in 1..Len(returned)}
    /\ <<"arm_arch=\"", "armv7ve", "\"">> \in {returned[i] : i \in 1..Len(returned)}


(***************************************************************************)
(* BouffalolabBuilder.__init__ and GnBuildArgs.  Before the constructor    *)
(* has run, self is the call: the arguments handed to it.  module_type is  *)
(* a sequence of atoms, "BL70" one of them wherever the string holds it.   *)
(* GnBuilder.__init__ (gn.py, not among the sources) is taken to store     *)
(* root and runner and to raise nothing.                                   *)
(***************************************************************************)
\* "BL70" in module_type
HasBL70(module_type) == \E i \in 1..Len(module_type) : module_type[i] = "BL70"

\* line 84
BouffaloChip(module_type) == IF HasBL70(module_type) THEN "bl702" ELSE "bl602"

\* the chip read off the board instead
BouffaloChipOfBoard(call) ==
    IF call.board \in {"XT_ZB6_DevKit", "BL706_IoT_DVK", "BL706_NIGHT_LIGHT"}
    THEN "bl702" ELSE "bl602"

\* the chip the constructor goes by
ChipOf(call) == BouffaloChip(call.module_type)

\* where bouffalolab.py lies: os.path.split(os.path.realpath(__file__))[0]
BuildersDir == "/connectedhomeip/scripts/build/builders"

\* lines 91-120 when nothing raises: argsOpt, each argument a sequence of atoms
ArgsOpt(call, env) ==
    <<<<"custom_toolchain=\"", BuildersDir, "/", "../../../config/bouffalolab/toolchain",
        ":riscv_gcc\"">>,
      <<"board=\"", GnArgName(call.board), "\"">>,
      <<"baudrate=\"", ToString(call.baudrate), "\"">>>>
    \o (IF ChipOf(call) = "bl702"
        THEN <<<<"module_type=\"", Flat(call.module_type), "\"">>>> ELSE <<>>)
    \o (IF call.enable_cdc THEN <<<<"enable_cdc_module=true">>>> ELSE <<>>)
    \o (IF call.enable_rpcs THEN <<<<"import(\"//with_pw_rpc.gni\")">>>>
        ELSE IF call.enable_shell THEN <<<<"chip_build_libshell=true">>>>
        ELSE <<>>)
    \o <<<<"bouffalolab_sdk_root=\"">> \o env["BOUFFALOLAB_SDK_ROOT"] \o <<"\"">>>>

\* how the constructor ends: "ok", or the first error it comes to
ConstructorStatus(call, env) ==
    IF BouffalolabExampleName(call.app) = RAISE THEN "Unknown app type"
    ELSE IF GnArgName(call.board) = RAISE THEN "Unknown board #"
    ELSE IF call.enable_cdc /\ ChipOf(call) # "bl702"
    THEN "Chip " \o ChipOf(call) \o " does NOT support USB CDC"
    ELSE IF "BOUFFALOLAB_SDK_ROOT" \notin DOMAIN env THEN "KeyError: BOUFFALOLAB_SDK_ROOT"
    ELSE "ok"

\* BouffalolabBuilder.__init__: self becomes the builder, unless it raises
Construct ==
    /\ self.kind = "BouffalolabBuilder(...)"
    /\ \E st \in {ConstructorStatus(self, environ)} :
          /\ status' = st
          /\ self' = IF st # "ok" THEN self
                     ELSE [kind |-> "bouffalolab",
                           app |-> self.app, board |-> self.board,
                           chip_name |-> ChipOf(self),
                           root |-> PathJoin(<<self.root, "examples",
                                               BouffalolabExampleName(self.app),
                                               "bouffalolab", ChipOf(self)>>),
                           output_dir |-> "out",
                           argsOpt |-> ArgsOpt(self, environ),
                           \* not a field of the builder: the call it came from
                           call |-> self]
    /\ op' = "__init__"
    /\ returned' = <<>>
    /\ UNCHANGED <<dry_run, environ, fs, cmds, failed_at, validated, fs0,
                   gn_args, args_str, results, platform, events>>

\* BouffalolabBuilder.GnBuildArgs
BouffalolabGnBuildArgs ==
    /\ self.kind = "bouffalolab"
    /\ "argsOpt" \in DOMAIN self
    /\ op' = "GnBuildArgs"
    /\ status' = "ok"
    /\ returned' = self.argsOpt
    /\ UNCHANGED <<self, dry_run, environ, fs, cmds, failed_at, validated, fs0,
                   gn_args, args_str, results, platform, events>>

(***************************************************************************)
(* SpecBouffalolab: the constructor called with every board, every choice  *)
(* of the three options and every module type of ModuleTypes, with         *)
(* BOUFFALOLAB_SDK_ROOT set or not, and GnBuildArgs() of the builder made. *)
(***************************************************************************)
ModuleTypes ==
    {<<"BL70", "6C-22">>, <<"BL60", "2">>, <<"x-", "BL70", "2">>, <<"BL7", "16">>, <<>>}

BouffalolabCalls ==
    [kind : {"BouffalolabBuilder(...)"}, root : {"root"},
     app : BouffalolabApp, board : BouffalolabBoard,
     enable_rpcs : BOOLEAN, module_type : ModuleTypes, baudrate : {2000000},
     enable_shell : BOOLEAN, enable_cdc : BOOLEAN]

BouffalolabEnvirons ==
    {NoVars, [n \in {"BOUFFALOLAB_SDK_ROOT"} |-> <<"/opt/bouffalolab_sdk">>]}

InitBouffalolab ==
    /\ self \in BouffalolabCalls
    /\ dry_run = TRUE
    /\ environ \in BouffalolabEnvirons
    /\ fs = GoodFs
    /\ InitCall

NextBouffalolab == Construct \/ BouffalolabGnBuildArgs

SpecBouffalolab == InitBouffalolab /\ [][NextBouffalolab]_vars

Constructed == self.kind = "bouffalolab" /\ "call" \in DOMAIN self
C19_Call == IF Constructed THEN self.call ELSE self
C19_IsBl702 == \E i \in 1..Len(C19_Call.module_type) : C19_Call.module_type[i] = "BL70"
C19_Has(arg) == \E i \in 1..Len(self.argsOpt) : self.argsOpt[i] = arg
C19_HasKey(key) == \E i \in 1..Len(self.argsOpt) : self.argsOpt[i][1] = key

\* C19: the constructor of a BouffalolabBuilder raised, leaving no builder,
\* exactly when BOUFFALOLAB_SDK_ROOT is unset or enable_cdc was asked for
\* with a module_type without 'BL70' (the board playing no part); the
\* builder it made has chip bl702 iff module_type holds 'BL70', has the
\* module_type argument iff the chip is bl702, enable_cdc_module=true iff
\* enable_cdc, and not both the pw_rpc import and chip_build_libshell=true.
C19_ConstructorFails ==
    (self.kind \in {"BouffalolabBuilder(...)", "bouffalolab"} /\ op # "none") =>
        /\ ~Constructed <=>
              \/ "BOUFFALOLAB_SDK_ROOT" \notin DOMAIN environ
              \/ (C19_Call.enable_cdc /\ ~C19_IsBl702)
        /\ ~Constructed => (status # "ok" /\ op = "__init__")
        /\ Constructed =>
              /\ self.chip_name = (IF C19_IsBl702 THEN "bl702" ELSE "bl602")
              /\ C19_HasKey("module_type=\"") <=> C19_IsBl702
              /\ C19_Has(<<"enable_cdc_module=true">>) <=> C19_Call.enable_cdc
              /\ C19_Has(<<"import(\"//with_pw_rpc.gni\")">>) <=> C19_Call.enable_rpcs
              /\ C19_Has(<<"chip_build_libshell=true">>) <=>
                    (C19_Call.enable_shell /\ ~C19_Call.enable_rpcs)
              /\ ~(C19_Has(<<"import(\"//with_pw_rpc.gni\")">>)
                   /\ C19_Has(<<"chip_build_libshell=true">>))

\* a BL602 board built with the BL706C-22 module, CDC, RPCs and the shell
C19_Witness ==
    /\ Constructed /\ op = "__init__" /\ status = "ok"
    /\ self.board = "BL602_NIGHT_LIGHT" /\ self.chip_name = "bl702"
    /\ self.call.enable_cdc /\ self.call.enable_rpcs /\ self.call.enable_shell
    /\ C19_Has(<<"module_type=\"", "BL706C-22", "\"">>)
    /\ C19_Has(<<"enable_cdc_module=true">>)
    /\ ~C19_Has(<<"chip_build_libshell=true">>)

\* a constructor that refused CDC on a BL706 board with a BL602 module
C19_Refused ==
    /\ ~Constructed /\ op = "__init__" /\ self.board = "BL706_IoT_DVK"
    /\ self.enable_cdc /\ self.module_type = <<"BL60", "2">>
    /\ "BOUFFALOLAB_SDK_ROOT" \in DOMAIN environ
    /\ status = "Chip bl602 does NOT support USB CDC"

====
